---- MODULE Spec2Model ----
(***************************************************************************)
(* A model of the LineairDB storage engine's key/value codec, range-query  *)
(* planner and scan cursors (ha_lineairdb.cc, lineairdb_field.cc,          *)
(* lineairdb_transaction.cc).                                              *)
(*                                                                         *)
(* Byte strings (std::string) are sequences of numbers in 0..255.          *)
(* Integers wider than TLC's machine integers are kept as their base-256   *)
(* digits, which is the form in which the codec receives and emits them.   *)
(***************************************************************************)
EXTENDS Integers, Sequences, FiniteSets, TLC

VARIABLES
  call,                       \* codec harness: the pending call's arguments
  ret,                        \* codec harness: the call's results
  ldbField,                   \* ha_lineairdb::ldbField, the row codec instance
  write_buffer_,              \* ha_lineairdb::write_buffer_
  store,                      \* the store's primary table: key -> entry
  index_store,                \* the store's secondary index: key -> primary keys
  tx,                         \* the session's transaction slot
  active_index,               \* handler::active_index
  secondary_index_results_,   \* the materialised primary keys of an index read
  current_position_in_index_,
  end_range_exclusive_key_,
  prefix_cursor_,             \* the cursor of a prefix read
  scanned_keys_,              \* the batch buffer of a table scan
  buffer_position_,
  last_batch_key_,            \* the watermark of a table scan
  scan_exhausted_,
  last_fetched_primary_key_,
  rc,                         \* what the last handler call returned
  buf,                        \* the host's record buffer
  last_scan,                  \* the last scan call made to the store
  returned,                   \* the keys a table scan has returned since rnd_init
  next_hidden_pk,             \* LineairDB_share::next_hidden_pk of the keyless table
  writers,                    \* the handlers of the keyless table inside write_row
  hidden_rows,                \* the rows written to the keyless table, by key
  db_table_key,               \* LineairDBTransaction::db_table_key, the selected table
  rowcount_deltas_,           \* LineairDBTransaction::rowcount_deltas_
  rowcount_shards,            \* LineairDB_share::rowcount_shards, per share
  ref                         \* handler::ref, the bytes position() leaves for rnd_pos

codecVars == <<ldbField, write_buffer_>>

indexVars == <<active_index, secondary_index_results_, current_position_in_index_,
               end_range_exclusive_key_, prefix_cursor_>>

rndVars == <<scanned_keys_, buffer_position_, last_batch_key_, scan_exhausted_, returned>>

shareVars == <<next_hidden_pk, writers, hidden_rows>>

countVars == <<rowcount_deltas_, rowcount_shards>>

handlerVars == <<store, index_store, tx, indexVars, rndVars, last_fetched_primary_key_, rc, buf,
                 last_scan, shareVars, countVars, ref, db_table_key>>

vars == <<call, ret, codecVars, handlerVars>>

(***************************************************************************)
(* Byte strings and their byte-wise (unsigned) lexicographic order, as     *)
(* std::string::compare and the store's key order.                         *)
(***************************************************************************)
Min(a, b) == IF a <= b THEN a ELSE b

Prefix(s, n) == SubSeq(s, 1, Min(n, Len(s)))

IsPrefixOf(p, s) == Len(p) <= Len(s) /\ SubSeq(s, 1, Len(p)) = p

LexLess(a, b) ==
  \E i \in 1..(Len(a) + 1) :
    /\ i <= Len(b)
    /\ \A j \in 1..(i - 1) : a[j] = b[j]
    /\ (i = Len(a) + 1 \/ a[i] < b[i])

LexLeq(a, b) == a = b \/ LexLess(a, b)

Repeat(b, n) == [i \in 1..n |-> b]

(***************************************************************************)
(* Key-part markers and type tags (anonymous namespace of ha_lineairdb.cc) *)
(***************************************************************************)
kKeyMarkerNotNull == 0
kKeyMarkerNull == 1
kKeyTypeInt == 16
kKeyTypeString == 32
kKeyTypeDatetime == 48
kKeyTypeOther == 240

key_part_type_tag(type) ==
  CASE type = "INT" -> kKeyTypeInt
    [] type = "STRING" -> kKeyTypeString
    [] type = "DATETIME" -> kKeyTypeDatetime
    [] OTHER -> kKeyTypeOther

\* uint16 length field, big-endian
LengthField(n) == <<(n \div 256) % 256, n % 256>>

\* The branch of append_key_part_encoding taken for LINEAIRDB_STRING:
\* payload, terminator 0x00, length.
StringPartBody(payload) == payload \o <<0>> \o LengthField(Len(payload))

\* The branch taken for INT, DATETIME and OTHER: length, payload.
FixedPartBody(payload) == LengthField(Len(payload)) \o payload

\* append_key_part_encoding writing the not-NULL marker for every part
append_key_part_encoding_unmarked(out, is_null, type, payload) ==
  out \o <<kKeyMarkerNotNull>>
      \o <<key_part_type_tag(type)>>
      \o (IF type = "STRING" THEN StringPartBody(payload)
                             ELSE FixedPartBody(payload))

\* out is the key built so far; the result is out with one part appended.
\* (payloads of the model are far below the 65535-byte truncation limit)
append_key_part_encoding(out, is_null, type, payload) ==
  out \o <<IF is_null THEN kKeyMarkerNull ELSE kKeyMarkerNotNull>>
      \o <<key_part_type_tag(type)>>
      \o (IF type = "STRING" THEN StringPartBody(payload)
                             ELSE FixedPartBody(payload))

build_prefix_range_end(prefix) == prefix \o <<255>>

(***************************************************************************)
(* encode_int_key: data is the column's little-endian image of len bytes.  *)
(* The code assembles the bytes into a uint64, XORs the high bit of the    *)
(* width and writes the result big-endian.  The uint64 is kept here as its *)
(* little-endian digits: the XOR touches digit len only.                   *)
(***************************************************************************)
XorHighBit(b) == (b + 128) % 256

FlipSignBit(data, len) ==
  [i \in 1..len |-> IF i = len THEN XorHighBit(data[i]) ELSE data[i]]

BigEndian(digits) == [i \in 1..Len(digits) |-> digits[Len(digits) + 1 - i]]

\* encode_int_key without the sign-bit flip
encode_int_key_unflipped(data, len) ==
  IF len \notin {1, 2, 4, 8} THEN <<>> ELSE BigEndian(SubSeq(data, 1, len))

\* encode_int_key leaving the bytes in little-endian order
encode_int_key_little_endian(data, len) ==
  IF len \notin {1, 2, 4, 8} THEN <<>> ELSE FlipSignBit(SubSeq(data, 1, len), len)

encode_int_key(data, len) ==
  IF len \notin {1, 2, 4, 8}
    THEN <<>>
    ELSE BigEndian(FlipSignBit(SubSeq(data, 1, len), len))

encode_datetime_key(data, len) == SubSeq(data, 1, len)

(***************************************************************************)
(* Index definitions (KEY / KEY_PART_INFO).  A key part is a record        *)
(*   [type: the LineairDBFieldType of the column, length: kp->length,      *)
(*    nullable: kp->null_bit # 0].                                         *)
(* A column value (Field, or one part of a host search key) is a record    *)
(*   [is_null, data]: data is the little-endian image for INT, the packed  *)
(* image for DATETIME and the string bytes for STRING and OTHER.           *)
(***************************************************************************)
\* fieldnr is the number of the part's column in the row, from 1
IntPart(w, nr) == [type |-> "INT", length |-> w, nullable |-> FALSE, fieldnr |-> nr]
NullableIntPart(w, nr) == [type |-> "INT", length |-> w, nullable |-> TRUE, fieldnr |-> nr]
StringPart(nr) == [type |-> "STRING", length |-> 0, nullable |-> FALSE, fieldnr |-> nr]

DatetimePart(w, nr) == [type |-> "DATETIME", length |-> w, nullable |-> FALSE, fieldnr |-> nr]
Nullable(kp) == [kp EXCEPT !.nullable = TRUE]

NotNull(d) == [is_null |-> FALSE, data |-> d]
NullValue == [is_null |-> TRUE, data |-> <<>>]

\* (keypart_map >> i) & 1, i counted from 0
Bit(map, i) == (map \div (2 ^ i)) % 2

\* the key_part_map selecting the first m parts
FirstParts(m) == (2 ^ m) - 1

RECURSIVE CountFrom(_, _, _)
CountFrom(key_info, keypart_map, i) ==
  IF i < Len(key_info) /\ Bit(keypart_map, i) = 1
    THEN 1 + CountFrom(key_info, keypart_map, i + 1)
    ELSE 0

count_used_key_parts(key_info, keypart_map) == CountFrom(key_info, keypart_map, 0)

\* val_int() laid out in buf[8]: the image sign-extended to eight bytes
SignExtend8(data) ==
  [i \in 1..8 |-> IF i <= Len(data) THEN data[i]
                  ELSE IF data[Len(data)] >= 128 THEN 255 ELSE 0]

\* the switch of serialize_key_from_field / convert_key_to_ldbformat
WritePathPayload(kp, value) ==
  CASE kp.type = "INT" ->
         IF kp.length \in {1, 2, 4}
           THEN encode_int_key(value.data, kp.length)
           ELSE encode_int_key(SignExtend8(value.data), 8)
    [] kp.type = "DATETIME" -> encode_datetime_key(value.data, kp.length)
    [] OTHER -> value.data

serialize_key_from_field(kp, value) ==
  append_key_part_encoding(<<>>, value.is_null, kp.type,
                           IF value.is_null THEN <<>> ELSE WritePathPayload(kp, value))

\* extract_key_from_mysql / build_secondary_key_from_row: every part of the
\* index, read from the row's field key_part.fieldnr
RECURSIVE ExtractFrom(_, _, _)
ExtractFrom(key_info, row, i) ==
  IF i > Len(key_info) THEN <<>>
  ELSE serialize_key_from_field(key_info[i], row[key_info[i].fieldnr])
         \o ExtractFrom(key_info, row, i + 1)

extract_key_from_mysql(key_info, row) == ExtractFrom(key_info, row, 1)

SearchPathPayload(kp, value) ==
  CASE kp.type = "INT" -> encode_int_key(value.data, kp.length)
    [] kp.type = "DATETIME" -> encode_datetime_key(value.data, kp.length)
    [] OTHER -> value.data

\* The loop of convert_key_to_ldbformat over the parts of the host key, which
\* stops at the first part the key_part_map does not select.
RECURSIVE ConvertFrom(_, _, _, _, _)
ConvertFrom(key_info, key, keypart_map, i, result) ==
  IF i >= Len(key_info) \/ Bit(keypart_map, i) = 0
    THEN result
    ELSE LET kp == key_info[i + 1]
             value == key[i + 1]
             is_null == kp.nullable /\ value.is_null
             next == IF is_null
                       THEN append_key_part_encoding(result, TRUE, kp.type, <<>>)
                       ELSE append_key_part_encoding(result, FALSE, kp.type,
                                                     SearchPathPayload(kp, value))
         IN ConvertFrom(key_info, key, keypart_map, i + 1, next)

convert_key_to_ldbformat(key_info, key, keypart_map) ==
  ConvertFrom(key_info, key, keypart_map, 0, <<>>)

(***************************************************************************)
(* LineairDBField (lineairdb_field.cc): the stored row value is a sequence *)
(* of field records [byteSize][valueLength][value]; the first record is    *)
(* the null bitmap.  The codec instance is the record                      *)
(*   [byteSize, valueLength, value, nullFlag, row].                        *)
(***************************************************************************)
noValue == 255

\* calculate_minimum_byte_size_required is declared in lineairdb_field.hh and
\* defined nowhere in the sources at hand: the least number of bytes that
\* hold num (num >= 1 at both call sites).
RECURSIVE calculate_minimum_byte_size_required(_)
calculate_minimum_byte_size_required(num) ==
  IF num < 256 THEN 1 ELSE 1 + calculate_minimum_byte_size_required(num \div 256)

\* little-endian, byte i is (num >> 8*i) & 0xFF
convert_numeric_to_bytes(num) ==
  [i \in 1..calculate_minimum_byte_size_required(num) |-> (num \div (256 ^ (i - 1))) % 256]

convert_numeric_to_a_byte(num) == convert_numeric_to_bytes(num)[1]

\* n = n | byte[i] << 8*i over the length bytes (lengths of the model stay
\* below 2^16, where the int-typed shift of the code is exact)
RECURSIVE SumBytes(_, _)
SumBytes(bytes, i) ==
  IF i > Len(bytes) THEN 0
  ELSE bytes[i] * (256 ^ (i - 1)) + SumBytes(bytes, i + 1)

convert_bytes_to_numeric(bytes) == SumBytes(bytes, 1)

set_header(f, num) ==
  IF num = 0
    THEN [f EXCEPT !.byteSize = noValue, !.valueLength = <<>>, !.value = <<>>]
    ELSE [f EXCEPT !.valueLength = convert_numeric_to_bytes(num),
                   !.byteSize = convert_numeric_to_a_byte(
                                  Len(convert_numeric_to_bytes(num)))]

set_lineairdb_field(f, src) == [set_header(f, Len(src)) EXCEPT !.value = src]

get_lineairdb_field(f) == <<f.byteSize>> \o f.valueLength \o f.value

\* A host row is [nullbits: the null bytes at the front of the record buffer,
\* cols: the columns, each [nullable, data]]; nullable column i owns bit i-1.
IsNullInRecord(nullbits, i) ==
  Len(nullbits) > 0 /\ Bit(nullbits[1], i - 1) = 1

FieldIsNull(r, i) == r.cols[i].nullable /\ IsNullInRecord(r.nullbits, i)

\* the loop of set_write_buffer over the columns: f is the codec, buffer the
\* blob so far
RECURSIVE WriteColumns(_, _, _, _)
WriteColumns(f, buffer, r, i) ==
  IF i > Len(r.cols) THEN [field |-> f, buffer |-> buffer]
  ELSE LET g == IF FieldIsNull(r, i) THEN set_lineairdb_field(f, <<>>)
                                     ELSE set_lineairdb_field(f, r.cols[i].data)
       IN WriteColumns(g, buffer \o get_lineairdb_field(g), r, i + 1)

set_write_buffer(f, r) ==
  LET g == set_lineairdb_field(f, r.nullbits)
  IN WriteColumns(g, get_lineairdb_field(g), r, 1)

\* the loop of make_mysql_table_row from byte offset (counted from 0)
RECURSIVE DecodeFrom(_, _, _)
DecodeFrom(f, data, offset) ==
  IF offset >= Len(data) THEN f
  ELSE LET byteSize == data[offset + 1]
       IN IF byteSize = noValue
            THEN DecodeFrom(
                   IF offset = 0
                     THEN [f EXCEPT !.byteSize = byteSize, !.nullFlag = <<>>]
                     ELSE [f EXCEPT !.byteSize = byteSize, !.row = Append(@, <<>>)],
                   data, offset + 1)
            ELSE LET valueLength == convert_bytes_to_numeric(
                                      SubSeq(data, offset + 2, offset + 1 + byteSize))
                     value == SubSeq(data, offset + 2 + byteSize,
                                     offset + 1 + byteSize + valueLength)
                 IN DecodeFrom(
                      IF offset = 0
                        THEN [f EXCEPT !.byteSize = byteSize, !.value = value,
                                       !.nullFlag = value]
                        ELSE [f EXCEPT !.byteSize = byteSize, !.value = value,
                                       !.row = Append(@, value)],
                      data, offset + 1 + byteSize + valueLength)

\* the loop of make_mysql_table_row as the raw pointer runs it: the blob is the
\* first `length` bytes of `memory`, the loop tests only offset < length, and
\* the reads of the length bytes and of the value go through ldbRawData with
\* no test against length.  A read past the end of `memory` leaves the mapped
\* bytes and the process dies.
RECURSIVE DecodeUpTo(_, _, _, _)
DecodeUpTo(f, memory, length, offset) ==
  IF offset >= length THEN [died |-> FALSE, field |-> f]
  ELSE LET byteSize == memory[offset + 1]
       IN IF byteSize = noValue
            THEN DecodeUpTo(
                   IF offset = 0
                     THEN [f EXCEPT !.byteSize = byteSize, !.nullFlag = <<>>]
                     ELSE [f EXCEPT !.byteSize = byteSize, !.row = Append(@, <<>>)],
                   memory, length, offset + 1)
            ELSE IF offset + 1 + byteSize > Len(memory)
              THEN [died |-> TRUE, field |-> [f EXCEPT !.byteSize = byteSize]]
            ELSE LET valueLength == convert_bytes_to_numeric(
                                      SubSeq(memory, offset + 2, offset + 1 + byteSize))
                     value == SubSeq(memory, offset + 2 + byteSize,
                                     offset + 1 + byteSize + valueLength)
                 IN IF offset + 1 + byteSize + valueLength > Len(memory)
                      THEN [died |-> TRUE, field |-> [f EXCEPT !.byteSize = byteSize]]
                      ELSE DecodeUpTo(
                             IF offset = 0
                               THEN [f EXCEPT !.byteSize = byteSize, !.value = value,
                                              !.nullFlag = value]
                               ELSE [f EXCEPT !.byteSize = byteSize, !.value = value,
                                              !.row = Append(@, value)],
                             memory, length, offset + 1 + byteSize + valueLength)

\* make_mysql_table_row(ldbRawData, length) over the memory ldbRawData points to
make_mysql_table_row_in_memory(f, memory, length) ==
  DecodeUpTo([f EXCEPT !.row = <<>>], memory, length, 0)

\* a decoder that does not clear the row of the previous call
make_mysql_table_row_without_clear(f, data) == DecodeFrom(f, data, 0)

make_mysql_table_row(f, data) == DecodeFrom([f EXCEPT !.row = <<>>], data, 0)

\* LineairDBField() = default: the strings are empty, byteSize is not
\* initialised
NewField(b) ==
  [byteSize |-> b, valueLength |-> <<>>, value |-> <<>>, nullFlag |-> <<>>, row |-> <<>>]

CodecIdle == ldbField = NewField(0) /\ write_buffer_ = <<>>

(***************************************************************************)
(* The table of the handler: columns (a, b), both TINYINT NOT NULL,        *)
(* PRIMARY KEY (a, b) and the secondary KEY (b, a).                        *)
(***************************************************************************)
PrimaryIndex == <<IntPart(1, 1), IntPart(1, 2)>>
SecondaryIndex == <<IntPart(1, 2), IntPart(1, 1)>>

PRIMARY == "PRIMARY"
SECONDARY == "SECONDARY"
MAX_KEY == "MAX_KEY"

KeyInfo(index) == IF index = SECONDARY THEN SecondaryIndex ELSE PrimaryIndex

MaxColumnValue == 2
ColumnValues == 1..MaxColumnValue

\* Field::val_str of a small non-negative integer column: its decimal digit
Digits(v) == <<48 + v>>

\* a row in its two forms: the key images of the fields and the host row
RowFields(a, b) == <<NotNull(<<a>>), NotNull(<<b>>)>>

HostRow(a, b) ==
  [nullbits |-> <<>>,
   cols |-> <<[nullable |-> FALSE, data |-> Digits(a)],
              [nullable |-> FALSE, data |-> Digits(b)]>>]

PrimaryKeyOf(a, b) == extract_key_from_mysql(PrimaryIndex, RowFields(a, b))
SecondaryKeyOf(a, b) == extract_key_from_mysql(SecondaryIndex, RowFields(a, b))

PrimaryKeys == {PrimaryKeyOf(a, b) : a \in ColumnValues, b \in ColumnValues}
SecondaryKeys == {SecondaryKeyOf(a, b) : a \in ColumnValues, b \in ColumnValues}

(***************************************************************************)
(* The store (LineairDB::Transaction), seen from its call sites: a sorted  *)
(* map from key to value that keeps the key of a deleted row as a          *)
(* tombstone, an entry whose value is (nullptr, 0).                        *)
(***************************************************************************)
Absent == [present |-> FALSE, value |-> <<>>]
Tombstone == [present |-> TRUE, value |-> <<>>]
Live(value) == [present |-> TRUE, value |-> value]

IsLive(s, key) == key \in DOMAIN s /\ s[key].present /\ s[key].value # <<>>
IsTombstone(s, key) == key \in DOMAIN s /\ s[key].present /\ s[key].value = <<>>

\* tx->Read(key): the value, or (nullptr, 0) for a missing or deleted key
StoreRead(s, key) == IF key \in DOMAIN s THEN s[key].value ELSE <<>>

\* the keys in ascending byte order: the key at place i has i - 1 keys
\* below it
SortedKeys(keys) ==
  [i \in 1..Cardinality(keys) |->
     CHOOSE k \in keys : Cardinality({other \in keys : LexLess(other, k)}) = i - 1]

\* the entries tx->Scan(begin, end, ...) hands to its callback, in key order;
\* both bounds are inclusive and an empty end is no bound (std::nullopt)
StoreScan(s, begin, end) ==
  SortedKeys({k \in DOMAIN s : /\ s[k].present
                               /\ LexLeq(begin, k)
                               /\ (end = <<>> \/ LexLeq(k, end))})

\* A scan may end in the conflict signal (std::nullopt, the transaction then
\* being aborted) after the store has handed over any number of entries:
\* conflict_at is that number, NoConflict for a scan that completes.
NoConflict == 0 - 1

ConflictChoices(visited) == {NoConflict} \cup (0..Len(visited))

\* the first n elements
Take(seq, n) == SubSeq(seq, 1, Min(n, Len(seq)))

\* n counts the scans the store has served the handler since its table scan
\* was opened
NoScan ==
  [via |-> "none", start |-> <<>>, end |-> <<>>, exclusive_end |-> <<>>,
   conflict |-> FALSE, accepted |-> <<>>, n |-> 0]

\* a scan call as the store and the callback saw it: the arguments, whether
\* it ended in the conflict signal and the keys the callback had accepted
ScanCall(via, start, end, exclusive_end, conflict, accepted) ==
  [via |-> via, start |-> start, end |-> end, exclusive_end |-> exclusive_end,
   conflict |-> conflict, accepted |-> accepted, n |-> 0]

\* the scan made after the scan previous
Counted(made, previous) == [made EXCEPT !.n = previous.n + 1]

(***************************************************************************)
(* The table without a declared primary key: its handlers share one        *)
(* LineairDB_share, whose next_hidden_pk numbers the rows.  A handler      *)
(* inside write_row holds the key it generated until it has written the    *)
(* row.                                                                    *)
(***************************************************************************)
NumWriters == 2
HiddenWriters == 1..NumWriters

Outside == [in_write_row |-> FALSE, row_id |-> 0, key |-> <<>>]

\* std::hex of one digit: 0-9 and a-f
HexDigit(d) == IF d < 10 THEN 48 + d ELSE 87 + d

RECURSIVE HexDigits(_)
\* operator<< of std::hex: the digits of n without leading zeros
HexDigits(n) ==
  IF n < 16 THEN <<HexDigit(n)>> ELSE Append(HexDigits(n \div 16), HexDigit(n % 16))

\* serialize_hidden_primary_key without std::setw(16)
serialize_hidden_primary_key_unpadded(row_id) == HexDigits(row_id)

\* std::setw(16) and std::setfill('0'): padded on the left to 16 characters
serialize_hidden_primary_key(row_id) ==
  Repeat(48, 16 - Min(16, Len(HexDigits(row_id)))) \o HexDigits(row_id)

(***************************************************************************)
(* Return codes and the record buffer.                                     *)
(***************************************************************************)
OK == "0"
HA_ERR_KEY_NOT_FOUND == "HA_ERR_KEY_NOT_FOUND"
HA_ERR_END_OF_FILE == "HA_ERR_END_OF_FILE"
HA_ERR_LOCK_DEADLOCK == "HA_ERR_LOCK_DEADLOCK"
\* the process has died on an invalid memory access
CRASHED == "SIGSEGV"
NoReturn == "none"

EmptyBuf == [nullFlags |-> <<>>, cols |-> <<>>]
\* a record buffer filled from memory the codec does not own
GarbageBuf == [nullFlags |-> <<>>, cols |-> <<"garbage">>]

TableColumns == Len(HostRow(1, 1).cols)

\* set_fields_from_lineairdb: the blob is decoded into the codec, then column
\* i of the decoded row is stored into field i.  get_column_of_row indexes
\* the decoded row unchecked: on a blob with fewer field records than the
\* table has columns (the empty blob of a tombstone) the read is out of
\* bounds, and the call either dies or returns with whatever it found.
SetFieldsOutcomes(f, blob) ==
  LET g == make_mysql_table_row(f, blob)
  IN IF Len(g.row) >= TableColumns
       THEN {[field |-> g, died |-> FALSE,
              buf |-> [nullFlags |-> g.nullFlag, cols |-> Take(g.row, TableColumns)]]}
       ELSE {[field |-> g, died |-> FALSE, buf |-> GarbageBuf],
             [field |-> g, died |-> TRUE, buf |-> GarbageBuf]}

(***************************************************************************)
(* LineairDBTransaction (lineairdb_transaction.cc).  The transaction slot  *)
(* is "none" before begin_transaction, then "active", and "aborted" once   *)
(* the store has aborted it.  conflict_at is the number of entries the     *)
(* store hands to the callback before it gives the conflict signal.        *)
(***************************************************************************)
get_transaction(t) == IF t = "none" THEN "active" ELSE t

is_aborted(t) == t = "aborted"

RECURSIVE FlattenPrimaryKeys(_, _)
\* the primary keys attached to a sequence of secondary keys, in order
FlattenPrimaryKeys(idx, keys) ==
  IF keys = <<>> THEN <<>>
  ELSE idx[Head(keys)] \o FlattenPrimaryKeys(idx, Tail(keys))

Visited(all, conflict_at) ==
  IF conflict_at = NoConflict THEN all ELSE Take(all, conflict_at)

\* a callback that accumulates the exclusive end key as well
KeptInRangeWithEnd(keys, exclusive_end_key) == keys

\* the callback of get_matching_keys_in_range and of
\* get_matching_primary_keys_in_range: only the exclusive end key is dropped
KeptInRange(keys, exclusive_end_key) ==
  SelectSeq(keys, LAMBDA k : ~(exclusive_end_key # <<>> /\ k = exclusive_end_key))

get_matching_keys_in_range(s, start_key, end_key, exclusive_end_key, conflict_at) ==
  LET accepted == KeptInRange(Visited(StoreScan(s, start_key, end_key), conflict_at),
                              exclusive_end_key)
  IN [keys |-> IF conflict_at = NoConflict THEN accepted ELSE <<>>,
      call |-> ScanCall("Scan", start_key, end_key, exclusive_end_key,
                        conflict_at # NoConflict, accepted)]

\* the secondary keys tx->ScanSecondaryIndex visits
IndexScan(idx, begin, end) ==
  SortedKeys({k \in DOMAIN idx : /\ idx[k] # <<>>
                                 /\ LexLeq(begin, k)
                                 /\ (end = <<>> \/ LexLeq(k, end))})

get_matching_primary_keys_in_range(idx, start_key, end_key, exclusive_end_key, conflict_at) ==
  LET accepted ==
        FlattenPrimaryKeys(idx,
          KeptInRange(Visited(IndexScan(idx, start_key, end_key), conflict_at),
                      exclusive_end_key))
  IN [keys |-> IF conflict_at = NoConflict THEN accepted ELSE <<>>,
      call |-> ScanCall("ScanSecondaryIndex", start_key, end_key, exclusive_end_key,
                        conflict_at # NoConflict, accepted)]

read_secondary_index(idx, secondary_key) ==
  IF secondary_key \in DOMAIN idx THEN idx[secondary_key] ELSE <<>>

RECURSIVE FirstAccepted(_, _, _, _, _)
\* the callback of fetch_first_key_with_prefix (skip_first = FALSE) and of
\* fetch_next_key_with_prefix (skip_first = TRUE) over the visited keys: the
\* key it stops at, as a sequence of at most one key
FirstAccepted(s, visited, prefix_end, last_key, skip_first) ==
  IF visited = <<>> THEN <<>>
  ELSE LET key == Head(visited)
       IN IF skip_first /\ key = last_key
            THEN FirstAccepted(s, Tail(visited), prefix_end, last_key, FALSE)
          ELSE IF prefix_end # <<>> /\ key = prefix_end THEN <<>>
          ELSE IF IsTombstone(s, key)
            THEN FirstAccepted(s, Tail(visited), prefix_end, last_key, skip_first)
          ELSE <<key>>

fetch_first_key_with_prefix(s, prefix, prefix_end, conflict_at) ==
  LET accepted == FirstAccepted(s, Visited(StoreScan(s, prefix, prefix_end), conflict_at),
                                prefix_end, <<>>, FALSE)
  IN [keys |-> IF conflict_at = NoConflict THEN accepted ELSE <<>>,
      call |-> ScanCall("Scan", prefix, prefix_end, prefix_end,
                        conflict_at # NoConflict, accepted)]

\* a next-key fetch that does not skip the key it starts from
fetch_next_key_with_prefix_from_last(s, last_key, prefix_end, conflict_at) ==
  fetch_first_key_with_prefix(s, last_key, prefix_end, conflict_at)

fetch_next_key_with_prefix(s, last_key, prefix_end, conflict_at) ==
  LET accepted == FirstAccepted(s, Visited(StoreScan(s, last_key, prefix_end), conflict_at),
                                prefix_end, last_key, TRUE)
  IN [keys |-> IF conflict_at = NoConflict THEN accepted ELSE <<>>,
      call |-> ScanCall("Scan", last_key, prefix_end, prefix_end,
                        conflict_at # NoConflict, accepted)]

\* the conflict points of a scan from begin to end
ScanConflicts(s, begin, end) == ConflictChoices(StoreScan(s, begin, end))

IndexScanConflicts(idx, begin, end) == ConflictChoices(IndexScan(idx, begin, end))

(***************************************************************************)
(* Host search keys.  A key argument (key, keypart_map) and the handler's  *)
(* end_range are records; given = FALSE stands for the null pointer.       *)
(***************************************************************************)
HA_READ_KEY_EXACT == "HA_READ_KEY_EXACT"
HA_READ_KEY_OR_NEXT == "HA_READ_KEY_OR_NEXT"
HA_READ_AFTER_KEY == "HA_READ_AFTER_KEY"
HA_READ_BEFORE_KEY == "HA_READ_BEFORE_KEY"

HA_WHOLE_KEY(key_info) == FirstParts(Len(key_info))

NullKey(key_info) ==
  [given |-> FALSE, key |-> <<>>, keypart_map |-> HA_WHOLE_KEY(key_info)]

HostKey(parts) ==
  [given |-> TRUE, key |-> parts, keypart_map |-> FirstParts(Len(parts))]

NoEndRange ==
  [given |-> FALSE, key |-> <<>>, keypart_map |-> 0, flag |-> HA_READ_AFTER_KEY]

EndRange(parts, flag) ==
  [given |-> TRUE, key |-> parts, keypart_map |-> FirstParts(Len(parts)), flag |-> flag]

(***************************************************************************)
(* The range an index read asks the store for.  path names the branch of   *)
(* the read: "full" (key == nullptr), "point", "prefix_cursor" or "range". *)
(***************************************************************************)
Range(path, start, end, exclusive_end) ==
  [path |-> path, start |-> start, end |-> end, exclusive_end |-> exclusive_end]

\* a start key left as the search key
AfterKeyStartAtKey(serialized_key) == serialized_key

\* HA_READ_AFTER_KEY: effective_start_key.push_back('\\x00')
AfterKeyStart(serialized_key) == serialized_key \o <<0>>

\* the serialised end key a branch of index_read_primary_key computes, before
\* the final length check
PrimaryEndKey(key_info, serialized_key, effective_start_key, find_flag, end_range, is_prefix_search) ==
  LET raw_end == convert_key_to_ldbformat(key_info, end_range.key, end_range.keypart_map)
      end_used_key_parts == count_used_key_parts(key_info, end_range.keypart_map)
      extended == IF end_used_key_parts < Len(key_info)
                    THEN build_prefix_range_end(raw_end) ELSE raw_end
  IN CASE find_flag = HA_READ_AFTER_KEY ->
            IF end_range.given
              THEN IF end_range.flag = HA_READ_BEFORE_KEY THEN raw_end ELSE extended
              ELSE Repeat(255, Len(effective_start_key) + 1)
       [] find_flag = HA_READ_KEY_OR_NEXT ->
            IF end_range.given
              THEN IF end_range.flag = HA_READ_BEFORE_KEY THEN raw_end ELSE extended
              ELSE Repeat(255, Len(serialized_key) + 1)
       [] OTHER ->
            IF end_range.given
              THEN IF end_range.flag = HA_READ_BEFORE_KEY THEN raw_end
                   ELSE IF \/ (is_prefix_search /\ raw_end = serialized_key)
                           \/ end_used_key_parts < Len(key_info)
                          THEN build_prefix_range_end(raw_end) ELSE raw_end
              ELSE build_prefix_range_end(serialized_key)

\* index_read_primary_key up to its call of the store
PrimaryRange(key_info, key, find_flag, end_range, is_prefix_search) ==
  LET raw_end == convert_key_to_ldbformat(key_info, end_range.key, end_range.keypart_map)
      exclusive == IF end_range.given /\ end_range.flag = HA_READ_BEFORE_KEY
                     THEN raw_end ELSE <<>>
      serialized_key == convert_key_to_ldbformat(key_info, key.key, key.keypart_map)
      effective_start_key == IF find_flag = HA_READ_AFTER_KEY
                               THEN AfterKeyStart(serialized_key) ELSE serialized_key
      end_key == PrimaryEndKey(key_info, serialized_key, effective_start_key, find_flag,
                               end_range, is_prefix_search)
  IN IF ~key.given
       THEN Range("full", <<>>, IF end_range.given THEN raw_end ELSE Repeat(255, 8),
                  exclusive)
     ELSE IF ~end_range.given /\ ~is_prefix_search /\ find_flag = HA_READ_KEY_EXACT
       THEN Range("point", serialized_key, serialized_key, <<>>)
     ELSE IF ~end_range.given /\ is_prefix_search /\ find_flag = HA_READ_KEY_EXACT
       THEN Range("prefix_cursor", serialized_key,
                  build_prefix_range_end(serialized_key), <<>>)
     ELSE Range("range", effective_start_key,
                IF Len(end_key) < Len(effective_start_key) /\ exclusive = <<>>
                  THEN build_prefix_range_end(end_key) ELSE end_key,
                exclusive)

\* the serialised end key a branch of index_read_secondary computes, before
\* the final length check
SecondaryEndKey(key_info, serialized_start_key, find_flag, end_range) ==
  LET raw_end == convert_key_to_ldbformat(key_info, end_range.key, end_range.keypart_map)
      end_used_key_parts == count_used_key_parts(key_info, end_range.keypart_map)
  IN CASE find_flag \in {HA_READ_AFTER_KEY, HA_READ_KEY_OR_NEXT} ->
            IF end_range.given THEN raw_end
            ELSE Repeat(255, Len(serialized_start_key) + 1)
       [] OTHER ->
            IF end_range.given
              THEN IF end_range.flag = HA_READ_BEFORE_KEY THEN raw_end
                   ELSE IF end_used_key_parts < Len(key_info)
                          THEN build_prefix_range_end(raw_end) ELSE raw_end
              ELSE build_prefix_range_end(serialized_start_key)

\* index_read_secondary up to its call of the store
SecondaryRange(key_info, key, find_flag, end_range, is_prefix_search) ==
  LET raw_end == convert_key_to_ldbformat(key_info, end_range.key, end_range.keypart_map)
      exclusive == IF end_range.given /\ end_range.flag = HA_READ_BEFORE_KEY
                     THEN raw_end ELSE <<>>
      serialized_key == convert_key_to_ldbformat(key_info, key.key, key.keypart_map)
      serialized_start_key == IF find_flag = HA_READ_AFTER_KEY
                                THEN AfterKeyStart(serialized_key) ELSE serialized_key
      end_key == SecondaryEndKey(key_info, serialized_start_key, find_flag, end_range)
  IN IF ~key.given
       THEN Range("full", <<>>, IF end_range.given THEN raw_end ELSE Repeat(255, 8),
                  exclusive)
     ELSE IF ~end_range.given /\ ~is_prefix_search /\ find_flag = HA_READ_KEY_EXACT
       THEN Range("point", serialized_key, serialized_key, <<>>)
     ELSE Range("range", serialized_start_key,
                IF Len(end_key) < Len(serialized_start_key) /\ exclusive = <<>>
                  THEN build_prefix_range_end(end_key) ELSE end_key,
                exclusive)

(***************************************************************************)
(* The handler after construction and open.                                *)
(***************************************************************************)
NoPrefixCursor ==
  [is_active |-> FALSE, prefix_key |-> <<>>, prefix_end_key |-> <<>>,
   last_fetched_key |-> <<>>, scan_exhausted |-> FALSE]

EmptyStore == [k \in PrimaryKeys |-> Absent]

EmptyIndexStore == [k \in SecondaryKeys |-> <<>>]

\* db_table_name of the handler, of another handler of the session, and the
\* db_table_key of a transaction that has selected no table
\* LineairDBTransaction::choose_table: db_table_key = db_table_name
choose_table(db_table_name) == db_table_name

OwnTable == "test/t1"
OtherTable == "test/t2"
NoTable == ""

\* the LineairDB_share objects; the shards of one share's row count
Shares == {"share1", "share2"}
kRowCountShards == 2

\* the members of the handler and of its session, apart from the table
CursorIdle ==
  /\ tx = "none"
  /\ active_index = MAX_KEY
  /\ secondary_index_results_ = <<>>
  /\ current_position_in_index_ = 0
  /\ end_range_exclusive_key_ = <<>>
  /\ prefix_cursor_ = NoPrefixCursor
  /\ scanned_keys_ = <<>>
  /\ buffer_position_ = 0
  /\ last_batch_key_ = <<>>
  /\ scan_exhausted_ = FALSE
  /\ last_fetched_primary_key_ = <<>>
  /\ rc = NoReturn
  /\ buf = EmptyBuf
  /\ last_scan = NoScan
  /\ returned = <<>>
  /\ next_hidden_pk = 0
  /\ writers = [w \in HiddenWriters |-> Outside]
  /\ hidden_rows = {}
  /\ db_table_key = NoTable
  /\ rowcount_deltas_ = <<>>
  /\ rowcount_shards = [share \in Shares |-> [shard \in 0..(kRowCountShards - 1) |-> 0]]

\* key_info[pk_index].key_length: the bytes of the parts in the host's key
\* format, a null byte before each nullable part
RECURSIVE HostKeyLength(_)
HostKeyLength(key_info) ==
  IF key_info = <<>> THEN 0
  ELSE Head(key_info).length + (IF Head(key_info).nullable THEN 1 ELSE 0)
       + HostKeyLength(Tail(key_info))

\* open: ref_length = sizeof(uint16_t) + key_length of the primary key
ref_length_of(key_info) == 2 + HostKeyLength(key_info)

ZeroBytes(n) == [i \in 1..n |-> 0]

HandlerIdle ==
  /\ store = EmptyStore
  /\ index_store = EmptyIndexStore
  /\ CursorIdle
  /\ ref = ZeroBytes(ref_length_of(PrimaryIndex))

Alive == rc # CRASHED

(***************************************************************************)
(* The index cursor of the handler.  The members an index read touches are *)
(* gathered in a record h, so that the helpers of index_read_map are       *)
(* operators from the handler before the call to the handlers the call can *)
(* leave behind (more than one where the call has undefined behaviour).    *)
(***************************************************************************)
Handler ==
  [results |-> secondary_index_results_, pos |-> current_position_in_index_,
   exclusive |-> end_range_exclusive_key_, prefix |-> prefix_cursor_,
   last_fetched |-> last_fetched_primary_key_, tx |-> tx, scan |-> last_scan,
   field |-> ldbField, buf |-> buf, rc |-> rc, read_aborts |-> FALSE,
   selected |-> db_table_key]

Becomes(h) ==
  /\ secondary_index_results_' = h.results
  /\ current_position_in_index_' = h.pos
  /\ end_range_exclusive_key_' = h.exclusive
  /\ prefix_cursor_' = h.prefix
  /\ last_fetched_primary_key_' = h.last_fetched
  /\ tx' = h.tx
  /\ last_scan' = h.scan
  /\ ldbField' = h.field
  /\ buf' = h.buf
  /\ rc' = h.rc
  /\ db_table_key' = h.selected

Returns(h, code) == [h EXCEPT !.rc = code]

\* a scan from which the store came back with the conflict signal: the
\* wrapper has called tx->Abort()
AfterScan(h, scan) ==
  [h EXCEPT !.scan = Counted(scan.call, h.scan),
            !.tx = IF scan.call.conflict THEN "aborted" ELSE h.tx]

\* set_fields_from_lineairdb on the value read for key, then the caller's
\* bookkeeping: the position moves on and the key is remembered
SetFieldsAndAdvance(h, key, blob, advance) ==
  {[h EXCEPT !.field = o.field, !.buf = o.buf,
             !.rc = IF o.died THEN CRASHED ELSE OK,
             !.pos = IF o.died THEN h.pos ELSE h.pos + advance,
             !.last_fetched = IF o.died THEN h.last_fetched ELSE key]
     : o \in SetFieldsOutcomes(h.field, blob)}

\* tx->read(key) inside an index read.  h.read_aborts says that the store
\* aborts the transaction in this read (the callers that test is_aborted()
\* right after tx->read expect it to): the read then gives (nullptr, 0).
TxRead(h, s, key) ==
  IF h.read_aborts
    THEN [h |-> [h EXCEPT !.tx = "aborted", !.read_aborts = FALSE], result |-> <<>>]
    ELSE [h |-> h, result |-> StoreRead(s, key)]

fetch_and_set_current_result(h, s) ==
  IF h.results = <<>> THEN {Returns(h, HA_ERR_KEY_NOT_FOUND)}
  ELSE LET primary_key == h.results[h.pos + 1]
           read == TxRead(h, s, primary_key)
       IN IF read.result = <<>> THEN {Returns(read.h, HA_ERR_KEY_NOT_FOUND)}
          ELSE SetFieldsAndAdvance(read.h, primary_key, read.result, 1)

\* the tail shared by the scanning branches of both index reads
AfterRangeScan(h, s, scan, empty_code) ==
  LET g == [AfterScan(h, scan) EXCEPT !.results = scan.keys]
  IN IF is_aborted(g.tx) THEN {Returns(g, HA_ERR_LOCK_DEADLOCK)}
     ELSE IF g.results = <<>> THEN {Returns(g, empty_code)}
     ELSE fetch_and_set_current_result(g, s)

PrefixCursorRead(h, s, r, conflict_at) ==
  LET opened == [h EXCEPT !.prefix.is_active = TRUE,
                          !.prefix.prefix_key = r.start,
                          !.prefix.prefix_end_key = r.end,
                          !.prefix.scan_exhausted = FALSE]
      scan == fetch_first_key_with_prefix(s, r.start, r.end, conflict_at)
      g == AfterScan(opened, scan)
      first_key == scan.keys[1]
      read == TxRead([g EXCEPT !.prefix.last_fetched_key = first_key], s, first_key)
      found == read.h
      result == read.result
  IN IF is_aborted(g.tx) THEN {Returns(g, HA_ERR_LOCK_DEADLOCK)}
     ELSE IF scan.keys = <<>>
       THEN {Returns([g EXCEPT !.prefix.is_active = FALSE], HA_ERR_KEY_NOT_FOUND)}
     ELSE IF is_aborted(found.tx) THEN {Returns(found, HA_ERR_LOCK_DEADLOCK)}
     ELSE IF result = <<>>
       THEN {Returns([found EXCEPT !.prefix.is_active = FALSE], HA_ERR_KEY_NOT_FOUND)}
     ELSE SetFieldsAndAdvance(found, first_key, result, 0)

index_read_primary_key(h, s, key_info, key, find_flag, end_range, is_prefix_search, conflict_at) ==
  LET r == PrimaryRange(key_info, key, find_flag, end_range, is_prefix_search)
      read == TxRead(h, s, r.start)
      ranged == [h EXCEPT !.exclusive = r.exclusive_end]
      scan == get_matching_keys_in_range(s, r.start, r.end, r.exclusive_end, conflict_at)
  IN CASE r.path = "point" ->
            IF read.result = <<>> THEN {Returns(read.h, HA_ERR_KEY_NOT_FOUND)}
            ELSE {IF g.rc = OK
                    THEN [g EXCEPT !.results = h.results \o <<r.start>>, !.pos = 1]
                    ELSE g
                   : g \in SetFieldsAndAdvance(read.h, r.start, read.result, 0)}
       [] r.path = "prefix_cursor" -> PrefixCursorRead(h, s, r, conflict_at)
       [] r.path = "full" -> AfterRangeScan(ranged, s, scan, HA_ERR_END_OF_FILE)
       [] OTHER -> AfterRangeScan(ranged, s, scan, HA_ERR_KEY_NOT_FOUND)

index_read_secondary(h, s, idx, key_info, key, find_flag, end_range, is_prefix_search, conflict_at) ==
  LET r == SecondaryRange(key_info, key, find_flag, end_range, is_prefix_search)
      ranged == [h EXCEPT !.exclusive = r.exclusive_end]
      exact == [h EXCEPT !.results = h.results \o read_secondary_index(idx, r.start)]
      scan == get_matching_primary_keys_in_range(idx, r.start, r.end, r.exclusive_end,
                                                 conflict_at)
  IN CASE r.path = "point" -> fetch_and_set_current_result(exact, s)
       [] r.path = "full" -> AfterRangeScan(ranged, s, scan, HA_ERR_END_OF_FILE)
       [] OTHER -> AfterRangeScan(ranged, s, scan, HA_ERR_KEY_NOT_FOUND)

\* the conflict points of the scan an index read makes (a point read makes
\* no scan)
ReadConflicts(s, idx, index, key_info, key, find_flag, end_range, is_prefix_search) ==
  LET p == PrimaryRange(key_info, key, find_flag, end_range, is_prefix_search)
      q == SecondaryRange(key_info, key, find_flag, end_range, is_prefix_search)
  IN IF index = PRIMARY
       THEN IF p.path = "point" THEN {NoConflict} ELSE ScanConflicts(s, p.start, p.end)
       ELSE IF q.path = "point" THEN {NoConflict}
            ELSE IndexScanConflicts(idx, q.start, q.end)

index_read_map(h, s, idx, index, key, find_flag, end_range, conflict_at) ==
  LET started == [h EXCEPT !.tx = get_transaction(h.tx)]
      cleared == [started EXCEPT !.selected = choose_table(OwnTable),
                                 !.results = <<>>, !.pos = 0, !.exclusive = <<>>,
                                 !.prefix.is_active = FALSE]
      key_info == KeyInfo(index)
      used_key_parts == count_used_key_parts(key_info, key.keypart_map)
      is_prefix_search == used_key_parts < Len(key_info)
  IN IF is_aborted(started.tx) THEN {Returns(started, HA_ERR_LOCK_DEADLOCK)}
     ELSE IF index = PRIMARY
       THEN index_read_primary_key(cleared, s, key_info, key, find_flag, end_range,
                                   is_prefix_search, conflict_at)
       ELSE index_read_secondary(cleared, s, idx, key_info, key, find_flag, end_range,
                                 is_prefix_search, conflict_at)

(***************************************************************************)
(* The calls of the server.  call.fn is the handler method the server      *)
(* called last: rows are written and deleted before a cursor is opened, an *)
(* index cursor is opened by index_init and read once, and the server asks *)
(* for a next row only after a call that returned a row.                   *)
(***************************************************************************)
NoCall == [fn |-> "none", idx |-> <<>>, x |-> <<>>, y |-> <<>>]

Called(fn, index, x, y) == [fn |-> fn, idx |-> index, x |-> x, y |-> y]

Loading == call.fn \in {"none", "write_row", "delete_row"}

HandlerInit ==
  /\ call = NoCall
  /\ ret = <<>>
  /\ CodecIdle
  /\ HandlerIdle

write_row(a, b) ==
  LET key == PrimaryKeyOf(a, b)
      w == set_write_buffer(ldbField, HostRow(a, b))
      secondary_key == SecondaryKeyOf(a, b)
  IN /\ Alive /\ Loading
     /\ ~IsLive(store, key)
     /\ call' = Called("write_row", PRIMARY, <<>>, <<>>)
     /\ ldbField' = w.field
     /\ write_buffer_' = w.buffer
     /\ tx' = get_transaction(tx)
     /\ IF is_aborted(tx')
          THEN rc' = HA_ERR_LOCK_DEADLOCK /\ UNCHANGED <<store, index_store>>
          ELSE /\ rc' = OK
               /\ store' = [store EXCEPT ![key] = Live(w.buffer)]
               /\ index_store' = [index_store EXCEPT
                                    ![secondary_key] = index_store[secondary_key] \o <<key>>]
     /\ db_table_key' = IF is_aborted(tx') THEN db_table_key ELSE choose_table(OwnTable)
     /\ UNCHANGED <<ret, shareVars, countVars, ref, indexVars, rndVars, last_fetched_primary_key_,
                    buf, last_scan>>

delete_row(a, b) ==
  LET key == PrimaryKeyOf(a, b)
      secondary_key == SecondaryKeyOf(a, b)
  IN /\ Alive /\ Loading
     /\ IsLive(store, key)
     /\ call' = Called("delete_row", PRIMARY, <<>>, <<>>)
     /\ last_fetched_primary_key_' = key
     /\ tx' = get_transaction(tx)
     /\ IF is_aborted(tx')
          THEN rc' = HA_ERR_LOCK_DEADLOCK /\ UNCHANGED <<store, index_store>>
          ELSE /\ rc' = OK
               /\ store' = [store EXCEPT ![key] = Tombstone]
               /\ index_store' = [index_store EXCEPT
                                    ![secondary_key] =
                                       SelectSeq(index_store[secondary_key],
                                                 LAMBDA pk : pk # key)]
     /\ db_table_key' = IF is_aborted(tx') THEN db_table_key ELSE choose_table(OwnTable)
     /\ UNCHANGED <<ret, shareVars, countVars, ref, codecVars, indexVars, rndVars, buf, last_scan>>

WriteRow == \E a \in ColumnValues, b \in ColumnValues : write_row(a, b)

DeleteRow == \E a \in ColumnValues, b \in ColumnValues : delete_row(a, b)

(***************************************************************************)
(* The index cursor.                                                       *)
(***************************************************************************)
PartValue(v) == NotNull(<<v>>)

\* the search keys of the server: one part or both parts of the index
SearchKeys ==
  {HostKey(<<PartValue(v)>>) : v \in ColumnValues}
    \cup {HostKey(<<PartValue(v), PartValue(w)>>) : v \in ColumnValues, w \in ColumnValues}

EndRanges ==
  {NoEndRange}
    \cup {EndRange(k.key, flag) : k \in SearchKeys,
                                  flag \in {HA_READ_BEFORE_KEY, HA_READ_AFTER_KEY}}

FindFlags == {HA_READ_KEY_EXACT, HA_READ_KEY_OR_NEXT, HA_READ_AFTER_KEY}

\* index_init as the handler runs it, whatever was called before
IndexInitCalled ==
  /\ Alive
  /\ \E index \in {PRIMARY, SECONDARY} :
       /\ active_index' = index
       /\ call' = Called("index_init", index, <<>>, <<>>)
  /\ current_position_in_index_' = 0
  /\ last_fetched_primary_key_' = <<>>
  /\ prefix_cursor_' = [prefix_cursor_ EXCEPT !.is_active = FALSE]
  /\ rc' = OK
  /\ UNCHANGED <<ret, shareVars, countVars, ref, db_table_key, codecVars, store, index_store,
                 tx, secondary_index_results_, end_range_exclusive_key_, rndVars, buf,
                 last_scan>>

IndexInit == Loading /\ IndexInitCalled

IndexUnchanged ==
  UNCHANGED <<ret, shareVars, countVars, ref, write_buffer_, store, index_store, active_index,
              rndVars>>

\* index_read_map called with a search key of keys and, as the handler's
\* end_range member, one of end_ranges
IndexReadMapOver(keys, end_ranges, aborts) ==
  /\ Alive /\ call.fn = "index_init"
  /\ \E key \in keys, find_flag \in FindFlags, end_range \in end_ranges, read_aborts \in aborts :
       \E conflict_at \in ReadConflicts(store, index_store, active_index,
                                        KeyInfo(active_index), key, find_flag, end_range,
                                        count_used_key_parts(KeyInfo(active_index),
                                                             key.keypart_map)
                                          < Len(KeyInfo(active_index))) :
         \E h \in index_read_map([Handler EXCEPT !.read_aborts = read_aborts], store,
                                 index_store, active_index, key, find_flag, end_range,
                                 conflict_at) :
           /\ Becomes(h)
           /\ call' = Called("index_read_map", active_index, key,
                             [find_flag |-> find_flag, end_range |-> end_range])
  /\ IndexUnchanged

IndexReadMap == IndexReadMapOver(SearchKeys, EndRanges, {FALSE})

\* index_first: index_read(buf, nullptr, 0, HA_READ_AFTER_KEY), which is
\* index_read_map with HA_WHOLE_KEY
IndexFirst ==
  /\ Alive /\ call.fn = "index_init"
  /\ \E end_range \in EndRanges :
       LET key == NullKey(KeyInfo(active_index))
       IN \E conflict_at \in ReadConflicts(store, index_store, active_index,
                                           KeyInfo(active_index), key, HA_READ_AFTER_KEY,
                                           end_range, FALSE) :
            \E h \in index_read_map(Handler, store, index_store, active_index, key,
                                    HA_READ_AFTER_KEY, end_range, conflict_at) :
              /\ Becomes(IF h.rc = HA_ERR_KEY_NOT_FOUND
                           THEN Returns(h, HA_ERR_END_OF_FILE) ELSE h)
              /\ call' = Called("index_first", active_index, key,
                                [find_flag |-> HA_READ_AFTER_KEY, end_range |-> end_range])
  /\ IndexUnchanged

index_next(h, s) ==
  LET started == [h EXCEPT !.tx = get_transaction(h.tx)]
      primary_key == h.results[h.pos + 1]
  IN IF h.results = <<>> \/ h.pos >= Len(h.results)
       THEN {Returns(h, HA_ERR_END_OF_FILE)}
     ELSE IF is_aborted(started.tx) THEN {Returns(started, HA_ERR_LOCK_DEADLOCK)}
     ELSE SetFieldsAndAdvance([started EXCEPT !.selected = choose_table(OwnTable)],
                              primary_key, StoreRead(s, primary_key), 1)

index_next_same(h, s, conflict_at) ==
  LET started == [h EXCEPT !.tx = get_transaction(h.tx)]
      scan == fetch_next_key_with_prefix(s, h.prefix.last_fetched_key,
                                         h.prefix.prefix_end_key, conflict_at)
      g == AfterScan([started EXCEPT !.selected = choose_table(OwnTable)], scan)
      next_key == scan.keys[1]
      found == [g EXCEPT !.prefix.last_fetched_key = next_key]
      result == StoreRead(s, next_key)
  IN IF ~h.prefix.is_active THEN index_next(h, s)
     ELSE IF h.prefix.scan_exhausted THEN {Returns(h, HA_ERR_END_OF_FILE)}
     ELSE IF is_aborted(started.tx) THEN {Returns(started, HA_ERR_LOCK_DEADLOCK)}
     ELSE IF is_aborted(g.tx) THEN {Returns(g, HA_ERR_LOCK_DEADLOCK)}
     ELSE IF scan.keys = <<>>
       THEN {Returns([g EXCEPT !.prefix.scan_exhausted = TRUE], HA_ERR_END_OF_FILE)}
     ELSE IF result = <<>> THEN {Returns(found, HA_ERR_KEY_NOT_FOUND)}
     ELSE SetFieldsAndAdvance(found, next_key, result, 0)

\* the server asks for the next row after a call that returned a row
Reading ==
  /\ call.fn \in {"index_read_map", "index_first", "index_next", "index_next_same"}
  /\ rc = OK

IndexNext ==
  /\ Alive /\ Reading
  /\ \E h \in index_next(Handler, store) : Becomes(h)
  /\ call' = [call EXCEPT !.fn = "index_next"]
  /\ IndexUnchanged

\* index_next_same as the handler runs it in any state of the cursor
IndexNextSameCalled ==
  /\ Alive
  /\ \E conflict_at \in
         IF prefix_cursor_.is_active /\ ~prefix_cursor_.scan_exhausted
           THEN ScanConflicts(store, prefix_cursor_.last_fetched_key,
                              prefix_cursor_.prefix_end_key)
           ELSE {NoConflict} :
       \E h \in index_next_same(Handler, store, conflict_at) : Becomes(h)
  /\ call' = [call EXCEPT !.fn = "index_next_same"]
  /\ IndexUnchanged

IndexNextSame == Reading /\ IndexNextSameCalled

IndexCursorNext ==
  \/ WriteRow
  \/ DeleteRow
  \/ IndexInit
  \/ IndexReadMap
  \/ IndexFirst
  \/ IndexNext
  \/ IndexNextSame

SpecIndex == HandlerInit /\ [][IndexCursorNext]_vars

(***************************************************************************)
(* The transaction of a session.  tx is the session's slot                 *)
(* (thd_ha_data): "none" is the null pointer, "active" and "aborted" a     *)
(* started LineairDBTransaction.  In this part ret is what the database    *)
(* has returned to the session: the transactions of db->BeginTransaction() *)
(* in order, each with the isTransaction flag its wrapper took at the      *)
(* begin and with ended = TRUE once db->EndTransaction() was called on it. *)
(***************************************************************************)
MaxTransactions == 3

NotStarted == "not_started"

is_not_started(t) == t = NotStarted

\* begin_transaction that skips the is_not_started() test of its caller
BeginAlways(t, begun, isTransaction) ==
  [tx |-> "active",
   begun |-> Append(begun, [isTransaction |-> isTransaction, ended |-> FALSE])]

\* the second half of get_transaction: begin_transaction() on a wrapper that
\* is not started; isTransaction is thd_is_transaction() at that moment
BeginIfNotStarted(t, begun, isTransaction) ==
  IF is_not_started(t)
    THEN [tx |-> "active",
          begun |-> Append(begun, [isTransaction |-> isTransaction, ended |-> FALSE])]
    ELSE [tx |-> t, begun |-> begun]

\* get_transaction on the slot t
SessionGetTransaction(t, begun, isTransaction) ==
  BeginIfNotStarted(IF t = "none" THEN NotStarted ELSE t, begun, isTransaction)

\* a test that takes every transaction for a single statement
is_always_a_single_statement(begun) == TRUE

is_a_single_statement(begun) == ~begun[Len(begun)].isTransaction

\* end_transaction and the assignment of nullptr to the slot
terminate_tx(t, begun) ==
  [tx |-> "none", begun |-> [begun EXCEPT ![Len(begun)].ended = TRUE]]

SessionUnchanged ==
  UNCHANGED <<codecVars, store, index_store, indexVars, rndVars,
              last_fetched_primary_key_, rc, buf, last_scan, shareVars, countVars, ref, db_table_key>>

\* a transaction may still be begun
MayBegin == tx # "none" \/ Len(ret) < MaxTransactions

\* any handler method that starts with get_transaction(ha_thd()); the store
\* may abort the transaction while the method runs
HandlerOperation ==
  /\ MayBegin
  /\ \E isTransaction \in BOOLEAN, store_aborts \in BOOLEAN :
       LET g == SessionGetTransaction(tx, ret, isTransaction)
       IN /\ tx' = IF store_aborts THEN "aborted" ELSE g.tx
          /\ ret' = g.begun
          /\ call' = Called("get_transaction", <<>>, isTransaction, store_aborts)
  /\ SessionUnchanged

\* external_lock(thd, F_UNLCK)
ExternalUnlock ==
  /\ MayBegin
  /\ \E isTransaction \in BOOLEAN :
       LET g == SessionGetTransaction(tx, ret, isTransaction)
           done == IF is_a_single_statement(g.begun) THEN terminate_tx(g.tx, g.begun)
                                                     ELSE g
       IN /\ tx' = done.tx
          /\ ret' = done.begun
          /\ call' = Called("external_lock", <<>>, "F_UNLCK", isTransaction)
  /\ SessionUnchanged

\* lineairdb_commit, called by the server for a registered transaction
\* (assert(tx != nullptr))
LineairdbCommit ==
  /\ tx # "none"
  /\ \E shouldTerminate \in BOOLEAN :
       LET done == IF shouldTerminate THEN terminate_tx(tx, ret)
                                      ELSE [tx |-> tx, begun |-> ret]
       IN /\ tx' = done.tx
          /\ ret' = done.begun
          /\ call' = Called("lineairdb_commit", <<>>, shouldTerminate, <<>>)
  /\ SessionUnchanged

\* lineairdb_abort: set_status_to_abort and terminate_tx, whatever the flag
LineairdbAbort ==
  /\ tx # "none"
  /\ \E all \in BOOLEAN :
       LET done == terminate_tx("aborted", ret)
       IN /\ tx' = done.tx
          /\ ret' = done.begun
          /\ call' = Called("lineairdb_abort", <<>>, all, <<>>)
  /\ SessionUnchanged

SessionNext == HandlerOperation \/ ExternalUnlock \/ LineairdbCommit \/ LineairdbAbort

SpecSession == HandlerInit /\ [][SessionNext]_vars

LiveTransactions == {i \in 1..Len(ret) : ~ret[i].ended}

\* C13: a session holds at most one transaction at every moment: a
\* transaction is begun exactly when the slot is empty (never on top of a
\* started one), the slot's transaction is the one that is not ended, and
\* after a terminating commit or a rollback the slot is empty, so that the
\* next operation begins a fresh transaction.
SessionHoldsOneTransaction ==
  /\ Cardinality(LiveTransactions) <= 1
  /\ (tx = "none") <=> (LiveTransactions = {})
  /\ (tx # "none") => (LiveTransactions = {Len(ret)})
  /\ (call.fn = "lineairdb_abort") => (tx = "none")
  /\ (call.fn = "lineairdb_commit" /\ call.x = TRUE) => (tx = "none")

\* a second transaction runs after the first was committed
SessionWitness ==
  /\ Len(ret) = 2
  /\ ret[1].ended /\ ~ret[2].ended
  /\ tx = "active"
  /\ call.fn = "get_transaction"

\* C27: external_lock(F_UNLCK) ends the transaction of a single-statement
\* (autocommit) session and empties the slot; it leaves the transaction of a
\* multi-statement session open in the slot, and such a transaction is ended
\* only by lineairdb_commit or lineairdb_abort.
UnlockEndsSingleStatementOnly ==
  [][/\ (call'.fn = "external_lock")
          => IF ret'[Len(ret')].isTransaction
               THEN tx' # "none" /\ ~ret'[Len(ret')].ended
               ELSE tx' = "none" /\ ret'[Len(ret')].ended
     /\ \A i \in 1..Len(ret) :
          (ret[i].isTransaction /\ ~ret[i].ended /\ ret'[i].ended)
            => call'.fn \in {"lineairdb_commit", "lineairdb_abort"}]_vars

\* the lock released in a multi-statement transaction that is still open,
\* after the lock release of a single statement ended an earlier one
UnlockWitness ==
  /\ call.fn = "external_lock"
  /\ Len(ret) = 2
  /\ ~ret[1].isTransaction /\ ret[1].ended
  /\ ret[2].isTransaction /\ ~ret[2].ended
  /\ tx = "active"

(***************************************************************************)
(* write_row on the table without a primary key, by handlers of            *)
(* concurrent sessions: extract_key takes the next row id from the share   *)
(* (one atomic fetch_add) and the row is written under its key later in    *)
(* write_row, after steps of the other handlers.                           *)
(***************************************************************************)
MaxHiddenRows == 18

HiddenUnchanged ==
  UNCHANGED <<call, ret, codecVars, store, index_store, tx, indexVars, rndVars,
              last_fetched_primary_key_, rc, buf, last_scan, countVars, ref, db_table_key>>

\* generate_hidden_primary_key, reached from extract_key
GenerateHiddenPrimaryKey ==
  /\ next_hidden_pk < MaxHiddenRows
  /\ \E w \in HiddenWriters :
       /\ ~writers[w].in_write_row
       /\ writers' = [writers EXCEPT ![w] =
                        [in_write_row |-> TRUE, row_id |-> next_hidden_pk,
                         key |-> serialize_hidden_primary_key(next_hidden_pk)]]
  /\ next_hidden_pk' = next_hidden_pk + 1
  /\ UNCHANGED hidden_rows
  /\ HiddenUnchanged

\* the rest of write_row: tx->write(key, write_buffer_)
WriteHiddenRow ==
  /\ \E w \in HiddenWriters :
       /\ writers[w].in_write_row
       /\ hidden_rows' = hidden_rows \cup {[row_id |-> writers[w].row_id,
                                             key |-> writers[w].key]}
       /\ writers' = [writers EXCEPT ![w] = Outside]
  /\ UNCHANGED next_hidden_pk
  /\ HiddenUnchanged

HiddenNext == GenerateHiddenPrimaryKey \/ WriteHiddenRow

SpecHidden == HandlerInit /\ [][HiddenNext]_vars

\* the keys generated so far: written, or held by a handler inside write_row
PendingWriters == {w \in HiddenWriters : writers[w].in_write_row}

HeldKeys == {[row_id |-> writers[w].row_id, key |-> writers[w].key] : w \in PendingWriters}

GeneratedKeys == hidden_rows \cup HeldKeys

\* C14: the surrogate keys generated for the write_row calls of concurrent
\* handlers sharing the table are pairwise distinct (no handler holds the
\* key of a written row or of another handler), each is 16 characters long
\* and comes from a counter value below the counter, and the byte-wise
\* order of two keys is the numeric order of their counter values.
HiddenKeysDistinctAndOrdered ==
  /\ Cardinality(HeldKeys) = Cardinality(PendingWriters)
  /\ hidden_rows \cap HeldKeys = {}
  /\ Cardinality(GeneratedKeys) = next_hidden_pk
  /\ Cardinality({g.key : g \in GeneratedKeys}) = next_hidden_pk
  /\ \A g \in GeneratedKeys : Len(g.key) = 16 /\ g.row_id < next_hidden_pk
  /\ \A g \in GeneratedKeys : \A h \in GeneratedKeys :
       (g.row_id < h.row_id) <=> LexLess(g.key, h.key)

\* the row 10 (hexadecimal) is written while a handler still holds the key
\* of row f, and the rows 9 and a are written
HiddenKeysWitness ==
  /\ [row_id |-> 9, key |-> Repeat(48, 15) \o <<57>>] \in hidden_rows
  /\ [row_id |-> 10, key |-> Repeat(48, 15) \o <<97>>] \in hidden_rows
  /\ [row_id |-> 16, key |-> Repeat(48, 14) \o <<49, 48>>] \in hidden_rows
  /\ [row_id |-> 15, key |-> Repeat(48, 15) \o <<102>>] \in HeldKeys

(***************************************************************************)
(* index_read_map given a key_part_map of any shape: the two parts of the  *)
(* key buffer with a bitmap that selects the first part, both parts, or    *)
(* the second part without the first.                                      *)
(***************************************************************************)
ShapedKeys ==
  {[given |-> TRUE, key |-> <<PartValue(v), PartValue(w)>>, keypart_map |-> m] :
     v \in ColumnValues, w \in ColumnValues, m \in 1..3}

\* a part is selected after an unselected one
NonContiguous(key_info, keypart_map) ==
  \E i \in 0..(Len(key_info) - 1), j \in 0..(Len(key_info) - 1) :
    i < j /\ Bit(keypart_map, i) = 0 /\ Bit(keypart_map, j) = 1

IndexReadMapAnyShape == IndexReadMapOver(ShapedKeys, {NoEndRange}, {FALSE})

ShapeNext == WriteRow \/ IndexInit \/ IndexReadMapAnyShape

SpecShape == HandlerInit /\ [][ShapeNext]_vars

(***************************************************************************)
(* index_read_map against a store that may abort the transaction: in the   *)
(* scan of the read (the conflict signal) or in the tx->read of a row.     *)
(***************************************************************************)
IndexReadMapStoreAborts == IndexReadMapOver(SearchKeys, {NoEndRange}, BOOLEAN)

AbortNext == WriteRow \/ DeleteRow \/ IndexInit \/ IndexReadMapStoreAborts

SpecAbort == HandlerInit /\ [][AbortNext]_vars

\* C12: index_read_map returns not-found (HA_ERR_KEY_NOT_FOUND, or
\* HA_ERR_END_OF_FILE) only when nothing matched and the transaction is not
\* aborted: when the store has aborted the transaction during the read, on
\* a range or a point path of either index, it returns HA_ERR_LOCK_DEADLOCK,
\* and no live key that its scan accepted is left unreported.
AbortedReadReportsConflict ==
  (call.fn = "index_read_map")
    => /\ is_aborted(tx) => (rc = HA_ERR_LOCK_DEADLOCK)
       /\ (rc \in {HA_ERR_KEY_NOT_FOUND, HA_ERR_END_OF_FILE})
            => (\A i \in 1..Len(last_scan.accepted) : ~IsLive(store, last_scan.accepted[i]))

\* C18: a search whose key_part_map is non-contiguous is surfaced as an
\* error at once: it returns neither a row nor not-found, and no search on
\* the leading contiguous parts is run against the store.
NonContiguousKeyRejected ==
  (call.fn = "index_read_map" /\ NonContiguous(KeyInfo(call.idx), call.x.keypart_map))
    => /\ rc \notin {OK, HA_ERR_KEY_NOT_FOUND, HA_ERR_END_OF_FILE}
       /\ last_scan = NoScan

(***************************************************************************)
(* Properties of the index cursor.                                         *)
(***************************************************************************)
\* the state an index read (index_read_map, or index_first on its way
\* through index_read_map) has left
AfterIndexRead == call.fn \in {"index_read_map", "index_first"}

\* the end key of the read as convert_key_to_ldbformat serialises it
RawEndKey ==
  convert_key_to_ldbformat(KeyInfo(call.idx), call.y.end_range.key,
                           call.y.end_range.keypart_map)

EndIsPartial ==
  count_used_key_parts(KeyInfo(call.idx), call.y.end_range.keypart_map)
    < Len(KeyInfo(call.idx))

\* the key under which the active index holds the row of a primary key
RowOfPrimaryKey(pk) ==
  CHOOSE r \in ColumnValues \X ColumnValues : PrimaryKeyOf(r[1], r[2]) = pk

IndexKeyOf(index, pk) ==
  IF index = PRIMARY THEN pk
  ELSE SecondaryKeyOf(RowOfPrimaryKey(pk)[1], RowOfPrimaryKey(pk)[2])

\* C4: after an index read with a before-key end range, whatever the start
\* (no key, exact, after-key, at-or-after), the scan's end and exclusive end
\* are the raw serialised end key, without the 0xFF extension, and the
\* materialised list holds no entry whose key is that end key.
ExclusiveEndIsRawEndKey ==
  (AfterIndexRead /\ call.y.end_range.given
     /\ call.y.end_range.flag = HA_READ_BEFORE_KEY)
    => /\ last_scan.end = RawEndKey
       /\ last_scan.exclusive_end = RawEndKey
       /\ end_range_exclusive_key_ = RawEndKey
       /\ \A i \in 1..Len(secondary_index_results_) :
            IndexKeyOf(call.idx, secondary_index_results_[i]) # RawEndKey

\* a before-key read on the primary key whose end key is a stored row's key,
\* inside the scanned range, and which has materialised other rows
ExclusiveEndWitness ==
  /\ AfterIndexRead /\ call.idx = PRIMARY
  /\ call.y.end_range.given /\ call.y.end_range.flag = HA_READ_BEFORE_KEY
  /\ RawEndKey \in DOMAIN store /\ store[RawEndKey].present
  /\ LexLeq(last_scan.start, RawEndKey)
  /\ ~last_scan.conflict
  /\ Len(secondary_index_results_) >= 2
  /\ rc = OK

\* C9: after an index read with an inclusive end range that uses fewer parts
\* than the index has, whatever the start, the end bound given to the store
\* begins with the end key followed by 0xFF, so that it lies above every
\* stored key with that prefix.
InclusivePartialEndExtended ==
  (AfterIndexRead /\ call.idx = PRIMARY /\ call.y.end_range.given
     /\ call.y.end_range.flag # HA_READ_BEFORE_KEY /\ EndIsPartial)
    => IsPrefixOf(build_prefix_range_end(RawEndKey), last_scan.end)

\* C10: the secondary read computes, for the inputs of the read, the same
\* (start, end, exclusive end) as the primary-key read.
SecondaryRangeIsPrimaryRange ==
  AfterIndexRead =>
    LET key_info == KeyInfo(call.idx)
        is_prefix_search ==
          count_used_key_parts(key_info, call.x.keypart_map) < Len(key_info)
        p == PrimaryRange(key_info, call.x, call.y.find_flag, call.y.end_range,
                          is_prefix_search)
        q == SecondaryRange(key_info, call.x, call.y.find_flag, call.y.end_range,
                            is_prefix_search)
    IN <<p.start, p.end, p.exclusive_end>> = <<q.start, q.end, q.exclusive_end>>

\* the keys of the active index the store holds an entry for
StoredIndexKeys ==
  IF call.idx = PRIMARY THEN {k \in DOMAIN store : store[k].present}
  ELSE {k \in DOMAIN index_store : index_store[k] # <<>>}

\* the search key of the read as convert_key_to_ldbformat serialises it
RawSearchKey ==
  convert_key_to_ldbformat(KeyInfo(call.idx), call.x.key, call.x.keypart_map)

\* the index keys of the entries the last scan handed back
ScanReturnedKeys ==
  {IndexKeyOf(call.idx, last_scan.accepted[i]) : i \in 1..Len(last_scan.accepted)}

\* C21: an after-key read scans from the search key followed by 0x00: the
\* scan hands back no entry whose key is the search key, and every stored key
\* byte-wise greater than the search key, up to the end bound of the scan and
\* other than the exclusive end, is handed back.
AfterKeyScanExcludesOnlyKey ==
  (/\ call.fn = "index_read_map"
   /\ call.y.find_flag = HA_READ_AFTER_KEY
   /\ last_scan.via # "none" /\ ~last_scan.conflict)
    => /\ last_scan.start = RawSearchKey \o <<0>>
       /\ RawSearchKey \notin ScanReturnedKeys
       /\ \A k \in StoredIndexKeys :
            (/\ LexLess(RawSearchKey, k)
             /\ LexLeq(k, last_scan.end)
             /\ ~(last_scan.exclusive_end # <<>> /\ k = last_scan.exclusive_end))
              => k \in ScanReturnedKeys

\* an after-key read whose search key is the key of a stored row, followed in
\* the index by another stored row, which the read returns
AfterKeyWitness ==
  /\ call.fn = "index_read_map"
  /\ call.y.find_flag = HA_READ_AFTER_KEY
  /\ ~call.y.end_range.given
  /\ ~last_scan.conflict
  /\ RawSearchKey \in StoredIndexKeys
  /\ Len(last_scan.accepted) >= 1
  /\ rc = OK
  /\ LexLess(RawSearchKey, IndexKeyOf(call.idx, last_fetched_primary_key_))

\* an after-key read whose search key has fewer parts than the index
IsPartialAfterKeyRead ==
  /\ call.fn = "index_read_map"
  /\ call.y.find_flag = HA_READ_AFTER_KEY
  /\ count_used_key_parts(KeyInfo(call.idx), call.x.keypart_map) < Len(KeyInfo(call.idx))

\* C35: an after-key read with a search key of fewer parts than the index
\* returns no row whose leading key parts are the search key: the index key
\* of the returned row does not start with the serialised search key.
PartialAfterKeySkipsPrefixGroup ==
  (IsPartialAfterKeyRead /\ rc = OK)
    => ~IsPrefixOf(RawSearchKey, IndexKeyOf(call.idx, last_fetched_primary_key_))

\* the entries of the primary key inside the range of the last scan, in key
\* order, the exclusive end left out
ScannedRange ==
  KeptInRange(StoreScan(store, last_scan.start, last_scan.end), last_scan.exclusive_end)

LiveInScannedRange == SelectSeq(ScannedRange, LAMBDA k : IsLive(store, k))

\* the live keys the materialised scan of [prefix_key, prefix_end_key] gives
LiveInPrefixRange(c) ==
  SelectSeq(KeptInRange(StoreScan(store, c.prefix_key, c.prefix_end_key), <<>>),
            LAMBDA k : IsLive(store, k))

\* an index_read_map that takes the prefix cursor: exact mode, fewer key
\* parts than the primary key has, no end range
IsPrefixCursorRead(made) ==
  /\ made.fn = "index_read_map" /\ made.idx = PRIMARY
  /\ made.y.find_flag = HA_READ_KEY_EXACT
  /\ ~made.y.end_range.given
  /\ Len(made.x.key) < Len(KeyInfo(PRIMARY))

\* C32: the prefix cursor returns the live keys of the materialised scan of
\* [prefix, prefix + 0xFF] in ascending order, each once: the read returns
\* the first of them, every index_next_same the next one after the key
\* fetched last, end-of-file follows the last one, and every key returned
\* starts with the prefix.
PrefixCursorMatchesScan ==
  [][LET expected == LiveInPrefixRange(prefix_cursor_')
         rest == SelectSeq(LiveInPrefixRange(prefix_cursor_),
                           LAMBDA k : ~LexLeq(k, prefix_cursor_.last_fetched_key))
     IN /\ (IsPrefixCursorRead(call') /\ call.fn = "index_init" /\ ~is_aborted(tx'))
             => IF expected = <<>>
                  THEN rc' = HA_ERR_KEY_NOT_FOUND
                  ELSE /\ rc' = OK
                       /\ last_fetched_primary_key_' = expected[1]
                       /\ IsPrefixOf(prefix_cursor_'.prefix_key, expected[1])
        /\ (call'.fn = "index_next_same" /\ prefix_cursor_.is_active /\ ~is_aborted(tx'))
             => IF rest = <<>>
                  THEN rc' = HA_ERR_END_OF_FILE
                  ELSE /\ rc' = OK
                       /\ last_fetched_primary_key_' = rest[1]
                       /\ IsPrefixOf(prefix_cursor_.prefix_key, rest[1])]_vars

PrefixCursorWitness ==
  /\ call.fn = "index_next_same"
  /\ rc = HA_ERR_END_OF_FILE
  /\ prefix_cursor_.is_active /\ prefix_cursor_.scan_exhausted
  /\ Len(LiveInPrefixRange(prefix_cursor_)) = 2
  /\ last_fetched_primary_key_ = LiveInPrefixRange(prefix_cursor_)[2]
  /\ \E k \in DOMAIN store : IsLive(store, k) /\ ~IsPrefixOf(prefix_cursor_.prefix_key, k)

\* C22: when the range an index read on the primary key scans begins with a
\* tombstone and holds a live entry after it, index_read_map and index_first
\* return the row of the first live entry.
FirstLiveRowAfterTombstone ==
  (/\ AfterIndexRead /\ call.idx = PRIMARY
   /\ last_scan.via # "none" /\ ~last_scan.conflict
   /\ ScannedRange # <<>>
   /\ IsTombstone(store, ScannedRange[1])
   /\ LiveInScannedRange # <<>>)
    => /\ rc = OK
       /\ last_fetched_primary_key_ = LiveInScannedRange[1]

\* C5: a call of a read path that returns a row returns the row of a live
\* key, never that of a key whose value is null or empty.
NoTombstoneReturned ==
  (call.fn \in {"index_read_map", "index_first", "index_next", "index_next_same",
                "rnd_next"}
     /\ rc = OK)
    => IsLive(store, last_fetched_primary_key_)

(***************************************************************************)
(* The table scan: rnd_init, rnd_next over batches of SCAN_BATCH_SIZE      *)
(* keys, rnd_end.                                                          *)
(***************************************************************************)
SCAN_BATCH_SIZE == 2

RECURSIVE BatchAcceptedWithoutSkip(_, _, _, _, _)
\* a callback that never skips the watermark key
BatchAcceptedWithoutSkip(s, visited, begin, skip_first, keys) ==
  IF visited = <<>> THEN keys
  ELSE IF IsTombstone(s, Head(visited))
    THEN BatchAcceptedWithoutSkip(s, Tail(visited), begin, FALSE, keys)
  ELSE IF Len(keys) + 1 >= SCAN_BATCH_SIZE THEN keys \o <<Head(visited)>>
  ELSE BatchAcceptedWithoutSkip(s, Tail(visited), begin, FALSE,
                                keys \o <<Head(visited)>>)

RECURSIVE BatchAccepted(_, _, _, _, _)
\* the callback of fetch_next_batch over the visited keys: scanned_keys_
\* when the scan ends
BatchAccepted(s, visited, begin, skip_first, keys) ==
  IF visited = <<>> THEN keys
  ELSE IF skip_first /\ Head(visited) = begin
    THEN BatchAccepted(s, Tail(visited), begin, skip_first, keys)
  ELSE IF IsTombstone(s, Head(visited))
    THEN BatchAccepted(s, Tail(visited), begin, FALSE, keys)
  ELSE IF Len(keys) + 1 >= SCAN_BATCH_SIZE THEN keys \o <<Head(visited)>>
  ELSE BatchAccepted(s, Tail(visited), begin, FALSE, keys \o <<Head(visited)>>)

\* fetch_next_batch without the is_aborted() test at its start
fetch_next_batch_without_abort_test(s, t, keys, pos, last, scan, conflict_at) ==
  LET started == get_transaction(t)
      begin == last
      accepted == BatchAccepted(s, Visited(StoreScan(s, begin, <<>>), conflict_at),
                                begin, begin # <<>>, <<>>)
      made == Counted(ScanCall("Scan", begin, <<>>, <<>>, conflict_at # NoConflict,
                               accepted), scan)
  IN IF conflict_at # NoConflict
       THEN [ok |-> FALSE, keys |-> accepted, pos |-> 0, last |-> last,
             tx |-> "aborted", scan |-> made]
     ELSE IF accepted = <<>>
       THEN [ok |-> FALSE, keys |-> accepted, pos |-> 0, last |-> last, tx |-> started,
             scan |-> made]
     ELSE [ok |-> TRUE, keys |-> accepted, pos |-> 0, last |-> accepted[Len(accepted)],
           tx |-> started, scan |-> made]

\* The scan of fetch_next_batch goes through LineairDBTransaction::Scan,
\* which does not look at the store's return value: the conflict is seen
\* through is_aborted(), the store having aborted the transaction.
\* The result is [ok, keys, pos, last, tx, scan]: the return value and the
\* members the call leaves.
fetch_next_batch(s, t, keys, pos, last, scan, conflict_at) ==
  LET started == get_transaction(t)
      begin == last
      accepted == BatchAccepted(s, Visited(StoreScan(s, begin, <<>>), conflict_at),
                                begin, begin # <<>>, <<>>)
      made == Counted(ScanCall("Scan", begin, <<>>, <<>>, conflict_at # NoConflict,
                               accepted), scan)
  IN IF is_aborted(started)
       THEN [ok |-> FALSE, keys |-> keys, pos |-> pos, last |-> last, tx |-> started,
             scan |-> scan]
     ELSE IF conflict_at # NoConflict
       THEN [ok |-> FALSE, keys |-> accepted, pos |-> 0, last |-> last,
             tx |-> "aborted", scan |-> made]
     ELSE IF accepted = <<>>
       THEN [ok |-> FALSE, keys |-> accepted, pos |-> 0, last |-> last, tx |-> started,
             scan |-> made]
     ELSE [ok |-> TRUE, keys |-> accepted, pos |-> 0, last |-> accepted[Len(accepted)],
           tx |-> started, scan |-> made]

Scanning == call.fn \in {"rnd_init", "rnd_next"} /\ rc = OK

\* the table of another handler of the session: one row, which the scanning
\* handler's table need not hold
OtherStore ==
  [k \in PrimaryKeys |->
     IF k = PrimaryKeyOf(MaxColumnValue, MaxColumnValue)
       THEN Live(set_write_buffer(NewField(0),
                                  HostRow(MaxColumnValue, MaxColumnValue)).buffer)
       ELSE Absent]

\* the table tx->Scan reads: the one set by tx->SetTable(db_table_key); the
\* wrapper makes no scan while no table is chosen, and a transaction begun by
\* get_transaction has chosen none
SelectedTable(t, selected, s) ==
  IF t = "none" \/ selected = NoTable THEN EmptyStore
  ELSE IF selected = OwnTable THEN s
  ELSE OtherStore

\* the batch cursor of the handler
BatchCursor ==
  [keys |-> scanned_keys_, pos |-> buffer_position_, last |-> last_batch_key_,
   exhausted |-> scan_exhausted_]

\* a reset that clears the buffer and its position and keeps the watermark
\* and the exhausted flag
rnd_init_keeping_watermark(c) == [c EXCEPT !.keys = <<>>, !.pos = 0]

\* rnd_init: scanned_keys_.clear(), buffer_position_ = 0,
\* last_batch_key_.clear(), scan_exhausted_ = false
rnd_init_batch_cursor(c) == [keys |-> <<>>, pos |-> 0, last |-> <<>>, exhausted |-> FALSE]

\* rnd_end makes the same four assignments
rnd_end_batch_cursor(c) == [keys |-> <<>>, pos |-> 0, last |-> <<>>, exhausted |-> FALSE]

BecomesBatchCursor(c) ==
  /\ scanned_keys_' = c.keys
  /\ buffer_position_' = c.pos
  /\ last_batch_key_' = c.last
  /\ scan_exhausted_' = c.exhausted

\* rnd_init as the handler runs it, whatever was called before
RndInitCalled ==
  /\ Alive
  /\ call' = Called("rnd_init", PRIMARY, <<>>, <<>>)
  /\ BecomesBatchCursor(rnd_init_batch_cursor(BatchCursor))
  /\ last_fetched_primary_key_' = <<>>
  /\ active_index' = PRIMARY
  /\ tx' = get_transaction(tx)
  /\ rc' = IF is_aborted(tx') THEN HA_ERR_LOCK_DEADLOCK ELSE OK
  /\ returned' = <<>>
  /\ last_scan' = [last_scan EXCEPT !.n = 0]
  /\ db_table_key' = IF is_aborted(tx') THEN db_table_key ELSE choose_table(OwnTable)
  /\ UNCHANGED <<shareVars, countVars, ref, codecVars, store, index_store, secondary_index_results_,
                 current_position_in_index_, end_range_exclusive_key_, prefix_cursor_,
                 buf>>

RndInit ==
  /\ Loading \/ call.fn = "rnd_end"
  /\ RndInitCalled
  /\ UNCHANGED ret

RndEnd ==
  /\ Alive
  /\ call.fn \in {"rnd_init", "rnd_next"}
  /\ call' = Called("rnd_end", PRIMARY, <<>>, <<>>)
  /\ BecomesBatchCursor(rnd_end_batch_cursor(BatchCursor))
  /\ rc' = OK
  /\ UNCHANGED <<ret, shareVars, countVars, ref, db_table_key, codecVars, store, index_store, tx,
                 indexVars,
                 last_fetched_primary_key_, buf, last_scan, returned>>

RndUnchanged ==
  UNCHANGED <<ret, shareVars, countVars, ref, write_buffer_, store, index_store, indexVars>>

\* an rnd_next that does not record that the scan is exhausted
RndNextWithoutRowUnrecorded(b) ==
  /\ scanned_keys_' = b.keys
  /\ buffer_position_' = b.pos
  /\ last_batch_key_' = b.last
  /\ tx' = b.tx
  /\ last_scan' = b.scan
  /\ scan_exhausted_' = FALSE
  /\ rc' = IF ~scan_exhausted_ /\ is_aborted(b.tx)
             THEN HA_ERR_LOCK_DEADLOCK ELSE HA_ERR_END_OF_FILE
  /\ UNCHANGED <<ldbField, buf, last_fetched_primary_key_, returned, db_table_key>>

\* rnd_next when the buffer is used up and the scan is exhausted, or the
\* batch fetch fails: no row is read
RndNextWithoutRow(b) ==
  /\ scanned_keys_' = b.keys
  /\ buffer_position_' = b.pos
  /\ last_batch_key_' = b.last
  /\ tx' = b.tx
  /\ last_scan' = b.scan
  /\ scan_exhausted_' = (scan_exhausted_ \/ ~is_aborted(b.tx))
  /\ rc' = IF ~scan_exhausted_ /\ is_aborted(b.tx)
             THEN HA_ERR_LOCK_DEADLOCK ELSE HA_ERR_END_OF_FILE
  /\ UNCHANGED <<ldbField, buf, last_fetched_primary_key_, returned, db_table_key>>

\* rnd_next from the point where scanned_keys_[buffer_position_] is read
RndNextRow(b) ==
  LET key == b.keys[b.pos + 1]
      started == get_transaction(b.tx)
      read_buffer == StoreRead(store, key)
  IN /\ scanned_keys_' = b.keys
     /\ buffer_position_' = b.pos + 1
     /\ last_batch_key_' = b.last
     /\ tx' = started
     /\ last_scan' = b.scan
     /\ UNCHANGED scan_exhausted_
     /\ db_table_key' = IF is_aborted(started) THEN db_table_key ELSE choose_table(OwnTable)
     /\ IF is_aborted(started)
          THEN /\ rc' = HA_ERR_LOCK_DEADLOCK
               /\ UNCHANGED <<ldbField, buf, last_fetched_primary_key_, returned>>
        ELSE IF read_buffer = <<>>
          THEN /\ rc' = HA_ERR_KEY_NOT_FOUND
               /\ UNCHANGED <<ldbField, buf, last_fetched_primary_key_, returned>>
        ELSE \E o \in SetFieldsOutcomes(ldbField, read_buffer) :
               /\ ldbField' = o.field
               /\ buf' = o.buf
               /\ rc' = IF o.died THEN CRASHED ELSE OK
               /\ last_fetched_primary_key_' =
                    IF o.died THEN last_fetched_primary_key_ ELSE key
               /\ returned' = IF o.died THEN returned ELSE returned \o <<key>>

\* rnd_next as the handler runs it in any state of the scan
RndNextCalled ==
  /\ Alive
  /\ call' = Called("rnd_next", PRIMARY, <<>>, <<>>)
  /\ LET kept == [ok |-> TRUE, keys |-> scanned_keys_, pos |-> buffer_position_,
                  last |-> last_batch_key_, tx |-> tx, scan |-> last_scan]
     IN IF buffer_position_ < Len(scanned_keys_) THEN RndNextRow(kept)
        ELSE IF scan_exhausted_ THEN RndNextWithoutRow(kept)
        ELSE \E conflict_at \in ScanConflicts(SelectedTable(tx, db_table_key, store),
                                                last_batch_key_, <<>>) :
               \E b \in {fetch_next_batch(SelectedTable(tx, db_table_key, store), tx,
                                           scanned_keys_, buffer_position_,
                                           last_batch_key_, last_scan, conflict_at)} :
                 IF b.ok THEN RndNextRow(b) ELSE RndNextWithoutRow(b)
  /\ RndUnchanged

RndNext == Scanning /\ RndNextCalled

TableScanNext ==
  \/ WriteRow
  \/ DeleteRow
  \/ RndInit
  \/ RndNext
  \/ RndEnd

SpecScan == HandlerInit /\ [][TableScanNext]_vars

(***************************************************************************)
(* A full table scan: the server calls rnd_next again after every row and  *)
(* calls rnd_end only once rnd_next has returned without a row.  Rows are  *)
(* written and deleted before rnd_init only, so no writer runs during the  *)
(* scan.                                                                   *)
(***************************************************************************)
RndEndAfterScan == call.fn = "rnd_next" /\ rc # OK /\ RndEnd

\* the row between the first and the last key of the table is deleted
DeleteMiddleRow == delete_row(1, MaxColumnValue)

FullScanNext ==
  \/ WriteRow
  \/ DeleteMiddleRow
  \/ RndInit
  \/ RndNext
  \/ RndEndAfterScan

\* the loop of the server over the rows of the table: while the last call
\* returned a row, rnd_next is called again
SpecFullScan == HandlerInit /\ [][FullScanNext]_vars /\ WF_vars(RndNext)

\* rnd_next can be called, and changes the state, exactly while the last
\* call returned a row or opened the scan
RndNextEnabledWhileScanning == (ENABLED <<RndNext>>_vars) <=> (Alive /\ Scanning)

\* an rnd_next that fetched a batch with at least one key
FetchedBatch ==
  /\ call'.fn = "rnd_next"
  /\ last_scan'.n = last_scan.n + 1
  /\ scanned_keys_' # <<>>
  /\ ~last_scan'.conflict

ScanEnded ==
  call.fn = "rnd_next" /\ rc \in {HA_ERR_END_OF_FILE, HA_ERR_LOCK_DEADLOCK}

\* C38: a full table scan terminates: every batch that is not empty moves
\* the watermark last_batch_key_ to a strictly greater key, and a scan that
\* rnd_init has opened leads to an rnd_next that returns end-of-file or the
\* conflict error.
FullScanTerminates ==
  /\ [][FetchedBatch => LexLess(last_batch_key_, last_batch_key_')]_vars
  /\ (call.fn = "rnd_init" /\ rc = OK) ~> ScanEnded

\* a scan over a table of at least three rows has come to its end after
\* three or more batches
ScanTerminatesWitness ==
  /\ call.fn = "rnd_next" /\ rc = HA_ERR_END_OF_FILE
  /\ Len(returned) >= 3
  /\ last_scan.n >= 3

(***************************************************************************)
(* A table scan while another handler of the session works on its own      *)
(* table with the same transaction, as the inner table of a join does      *)
(* between two rnd_next calls on the outer table.                          *)
(***************************************************************************)
\* any method of the other handler that reaches tx->choose_table: the
\* transaction's selected table becomes the other handler's
OtherHandlerOperation ==
  /\ Alive /\ Scanning
  /\ tx = "active"
  /\ db_table_key' = choose_table(OtherTable)
  /\ UNCHANGED <<call, ret, codecVars, store, index_store, tx, indexVars, rndVars,
                 last_fetched_primary_key_, rc, buf, last_scan, shareVars, countVars, ref>>

JoinNext ==
  \/ WriteRow
  \/ DeleteRow
  \/ RndInit
  \/ RndNext
  \/ RndEnd
  \/ OtherHandlerOperation

SpecJoin == HandlerInit /\ [][JoinNext]_vars

\* C28: every batch an rnd_next fetches is the batch of the scanning
\* handler's own table, whatever table the other handlers of the transaction
\* selected since the last rnd_next.
ScanReadsOwnTable ==
  [][(call'.fn = "rnd_next" /\ last_scan'.n = last_scan.n + 1 /\ ~last_scan'.conflict)
       => last_scan'.accepted =
            fetch_next_batch(store, tx, scanned_keys_, buffer_position_, last_batch_key_,
                             last_scan, NoConflict).scan.accepted]_vars

(***************************************************************************)
(* Properties of the cursors under conflicts, and of the table scan.       *)
(***************************************************************************)
\* the last call made a scan to which the store gave the conflict signal
ScanConflicted ==
  /\ call.fn \in {"index_read_map", "index_first", "index_next_same", "rnd_next"}
  /\ last_scan.conflict

\* C6: a call whose scan ended in the conflict signal reports the conflict
\* and keeps none of the keys the callback accepted: neither the
\* materialised list nor the batch buffer holds any.
ConflictDiscardsPartialResults ==
  ScanConflicted
    => /\ rc = HA_ERR_LOCK_DEADLOCK
       /\ secondary_index_results_ = <<>>
       /\ scanned_keys_ = <<>>

LiveKeys == SortedKeys({k \in DOMAIN store : IsLive(store, k)})

\* C8: while a table scan meets no conflict, the keys it has returned are
\* the first live keys of the table in ascending order, each once, and at
\* end-of-file they are all the live keys.
FullScanReturnsEachLiveKeyOnce ==
  (call.fn = "rnd_next" /\ rc \in {OK, HA_ERR_END_OF_FILE})
    => /\ returned = Take(LiveKeys, Len(returned))
       /\ rc = HA_ERR_END_OF_FILE => returned = LiveKeys

\* a scan that has reached end-of-file over more live rows than one batch
\* holds, not a multiple of the batch size, and a tombstone among them
FullScanWitness ==
  /\ call.fn = "rnd_next" /\ rc = HA_ERR_END_OF_FILE
  /\ Len(returned) > SCAN_BATCH_SIZE
  /\ Len(returned) % SCAN_BATCH_SIZE # 0
  /\ \E k \in DOMAIN store : IsTombstone(store, k) /\ LexLess(k, returned[Len(returned)])

(***************************************************************************)
(* Table scans one after another on one handler: rnd_init after a scan     *)
(* that was ended by rnd_end, that ran to end-of-file, or that was left    *)
(* midway (rnd_init may be called twice without rnd_end in between).  In   *)
(* this part ret lists how the handler stood at each such rnd_init.        *)
(***************************************************************************)
MaxRescans == 2

RndInitAgain ==
  /\ call.fn \in {"rnd_init", "rnd_next", "rnd_end"}
  /\ Len(ret) < MaxRescans
  /\ ret' = Append(ret, [fn |-> call.fn, rc |-> rc, cursor |-> BatchCursor])
  /\ RndInitCalled

RescanNext ==
  \/ WriteRow
  \/ DeleteRow
  \/ RndInit
  \/ RndInitAgain
  \/ RndNext
  \/ RndEnd

SpecRescan == HandlerInit /\ [][RescanNext]_vars

\* C23: rnd_init and rnd_end leave the batch cursor reset (no buffered key,
\* position 0, no watermark, not exhausted); a scan begun by rnd_init after
\* an earlier scan of the handler, ended, exhausted or left midway, returns
\* the live keys from the smallest on, and all of them at end-of-file.
RescanStartsFromSmallestKey ==
  /\ call.fn \in {"rnd_init", "rnd_end"}
       => BatchCursor = [keys |-> <<>>, pos |-> 0, last |-> <<>>, exhausted |-> FALSE]
  /\ (call.fn = "rnd_next" /\ ret # <<>> /\ rc \in {OK, HA_ERR_END_OF_FILE})
       => /\ returned = Take(LiveKeys, Len(returned))
          /\ rc = HA_ERR_END_OF_FILE => returned = LiveKeys

\* a scan left after its first batch, with the watermark set, followed by a
\* scan that has run over more than one batch to end-of-file
RescanWitness ==
  /\ call.fn = "rnd_next" /\ rc = HA_ERR_END_OF_FILE
  /\ Len(ret) = 1
  /\ ret[1].fn = "rnd_next" /\ ret[1].rc = OK
  /\ ret[1].cursor.last # <<>>
  /\ ret[1].cursor.pos < Len(ret[1].cursor.keys)
  /\ Len(returned) > SCAN_BATCH_SIZE

(***************************************************************************)
(* The cursors asked for rows again after a call has failed: rnd_next      *)
(* after any rnd_next, index_next_same after any index read.               *)
(***************************************************************************)
RndNextAnyTime == call.fn \in {"rnd_init", "rnd_next"} /\ RndNextCalled

IndexReadMapNoEnd == IndexReadMapOver(SearchKeys, {NoEndRange}, {FALSE})

IndexNextSameAnyTime ==
  call.fn \in {"index_read_map", "index_next_same"} /\ IndexNextSameCalled

ConflictNext ==
  \/ WriteRow
  \/ DeleteRow
  \/ RndInit
  \/ RndNextAnyTime
  \/ RndEnd
  \/ IndexInit
  \/ IndexReadMapNoEnd
  \/ IndexNextSameAnyTime

SpecConflict == HandlerInit /\ [][ConflictNext]_vars

\* C24: the table-scan cursor is idle after rnd_init, which issues no store
\* scan; the first rnd_next of a scan issues exactly one; and once rnd_next
\* has returned end-of-file, a later rnd_next returns end-of-file again and
\* issues no store scan.
ExhaustedIsTerminal ==
  [][/\ (call'.fn = "rnd_init") => last_scan' = [last_scan EXCEPT !.n = 0]
     /\ (call.fn = "rnd_init" /\ rc = OK /\ call'.fn = "rnd_next")
          => last_scan'.n = 1
     /\ (call.fn = "rnd_next" /\ rc = HA_ERR_END_OF_FILE /\ call'.fn = "rnd_next")
          => /\ rc' = HA_ERR_END_OF_FILE
             /\ last_scan' = last_scan]_vars

\* a scan that has returned rows from more than one batch and then
\* end-of-file
ExhaustedWitness ==
  /\ call.fn = "rnd_next" /\ rc = HA_ERR_END_OF_FILE
  /\ scan_exhausted_
  /\ last_scan.n >= 2
  /\ Len(returned) > SCAN_BATCH_SIZE
  /\ ~last_scan.conflict

\* C15: once the store has reported a scan conflict in the transaction, no
\* call issues another store scan, and every later rnd_next and every later
\* index_next_same on the prefix cursor returns HA_ERR_LOCK_DEADLOCK.
NoScanAfterConflict ==
  [][(last_scan.conflict /\ is_aborted(tx))
       => /\ last_scan' \in {last_scan, [last_scan EXCEPT !.n = 0]}
          /\ is_aborted(tx')
          /\ (\/ call'.fn = "rnd_next"
              \/ call'.fn = "index_next_same" /\ prefix_cursor_.is_active)
               => (rc' = HA_ERR_LOCK_DEADLOCK)]_vars

\* rnd_next was called again after the conflict of a batch scan that had
\* accepted a key, and has returned the conflict error
NoScanAfterConflictWitness ==
  /\ last_scan.conflict /\ is_aborted(tx)
  /\ call.fn = "rnd_next"
  /\ buffer_position_ >= 1
  /\ rc = HA_ERR_LOCK_DEADLOCK

(***************************************************************************)
(* The rows given to the row codec.                                        *)
(***************************************************************************)
MaxCols == 2
LongValueLen == 300

\* "", "x", "42", a byte equal to the sentinel, and a value whose length needs
\* two length bytes
ColumnData == {<<>>, <<120>>, <<52, 50>>, <<255>>, Repeat(7, LongValueLen)}

\* null bytes: none (no nullable column), or one byte with any of the
\* columns' bits set and the unused high bits clear or set
NullBytes(n, nullable) ==
  IF ~nullable THEN {<<>>}
  ELSE {<<bits + pad>> : bits \in 0..((2 ^ n) - 1), pad \in {0, 248}}

HostRows ==
  UNION {[nullbits : NullBytes(n, nullable),
          cols : [1..n -> [nullable : {nullable}, data : ColumnData]]] :
           n \in 1..MaxCols, nullable \in BOOLEAN}

\* the codec as a handler finds it: new, or after an earlier row was read
EarlierRows ==
  {[nullbits |-> <<255>>, cols |-> <<[nullable |-> TRUE, data |-> <<>>]>>],
   [nullbits |-> <<>>, cols |-> <<[nullable |-> FALSE, data |-> <<120>>],
                                  [nullable |-> FALSE, data |-> <<52, 50>>]>>]}

UsedFields ==
  {NewField(b) : b \in {0, noValue}}
    \cup {make_mysql_table_row(set_write_buffer(NewField(0), r).field,
                               set_write_buffer(NewField(0), r).buffer) : r \in EarlierRows}

RowInit ==
  /\ call \in [fn : {"row"}, idx : {<<>>}, x : HostRows, y : {<<>>}]
  /\ ret = <<>>
  /\ ldbField \in UsedFields
  /\ write_buffer_ = <<>>
  /\ HandlerIdle

\* write_row / update_row up to the store: the row is encoded
SetWriteBuffer ==
  /\ call.fn = "row" /\ ret = <<>>
  /\ LET w == set_write_buffer(ldbField, call.x)
     IN /\ ldbField' = w.field
        /\ write_buffer_' = w.buffer
  /\ ret' = <<"written">>
  /\ UNCHANGED <<call, handlerVars>>

\* set_fields_from_lineairdb up to the host fields: the blob is decoded
MakeMysqlTableRow ==
  /\ call.fn = "row" /\ ret = <<"written">>
  /\ ldbField' = make_mysql_table_row(ldbField, write_buffer_)
  /\ ret' = <<"written", "read">>
  /\ UNCHANGED <<call, write_buffer_, handlerVars>>

RowNext == SetWriteBuffer \/ MakeMysqlTableRow

SpecRow == RowInit /\ [][RowNext]_vars

RowDecoded == call.fn = "row" /\ ret = <<"written", "read">>

HA_ERR_WRONG_COMMAND == "HA_ERR_WRONG_COMMAND"

Reverse(seq) == [i \in 1..Len(seq) |-> seq[Len(seq) + 1 - i]]

\* the entries tx->ScanReverse(begin, end, ...) hands to its callback: those
\* of Scan in descending key order
StoreScanReverse(s, begin, end) == Reverse(StoreScan(s, begin, end))

\* the callback of fetch_last_key_in_range passes over the exclusive end key
\* (returns false) and stops the scan at any other key (returns true); the
\* value handed to it is not looked at
fetch_last_key_in_range(s, start_key, end_key, exclusive_end_key, conflict_at) ==
  LET accepted == Take(KeptInRange(Visited(StoreScanReverse(s, start_key, end_key),
                                           conflict_at),
                                   exclusive_end_key), 1)
  IN [keys |-> IF conflict_at = NoConflict THEN accepted ELSE <<>>,
      call |-> ScanCall("ScanReverse", start_key, end_key, exclusive_end_key,
                        conflict_at # NoConflict, accepted)]

\* the bounds of a backward read: none, or a key of the table
RangeBounds == {<<>>} \cup DOMAIN store

ReverseUnchanged ==
  UNCHANGED <<ret, shareVars, countVars, ref, db_table_key, codecVars, store, index_store, tx,
              indexVars, rndVars, last_fetched_primary_key_, buf, last_scan>>

\* index_last: rc = HA_ERR_WRONG_COMMAND
IndexLast ==
  /\ Alive /\ call.fn = "index_init"
  /\ rc' = HA_ERR_WRONG_COMMAND
  /\ call' = Called("index_last", active_index, <<>>, <<>>)
  /\ ReverseUnchanged

\* index_prev after a call that returned a row: rc = HA_ERR_WRONG_COMMAND
IndexPrev ==
  /\ Alive /\ Reading
  /\ rc' = HA_ERR_WRONG_COMMAND
  /\ call' = Called("index_prev", active_index, <<>>, <<>>)
  /\ ReverseUnchanged

FetchLastKeyInRange ==
  /\ Alive /\ call.fn = "index_init" /\ active_index = PRIMARY
  /\ \E start_key \in RangeBounds, end_key \in RangeBounds :
       \E exclusive_end_key \in {<<>>, end_key} :
         \E conflict_at \in ConflictChoices(Take(StoreScanReverse(store, start_key, end_key), 1)) :
           LET scan == fetch_last_key_in_range(store, start_key, end_key,
                                               exclusive_end_key, conflict_at)
           IN /\ ret' = scan.keys
              /\ last_scan' = Counted(scan.call, last_scan)
              /\ tx' = IF scan.call.conflict THEN "aborted" ELSE get_transaction(tx)
              /\ call' = Called("fetch_last_key_in_range", active_index,
                                <<start_key, end_key, exclusive_end_key>>, <<>>)
  /\ UNCHANGED <<shareVars, countVars, ref, db_table_key, codecVars, store, index_store,
                 indexVars, rndVars, last_fetched_primary_key_, buf, rc>>

ReverseNext ==
  \/ WriteRow
  \/ DeleteRow
  \/ IndexInit
  \/ IndexReadMapNoEnd
  \/ IndexLast
  \/ IndexPrev
  \/ FetchLastKeyInRange

SpecReverse == HandlerInit /\ [][ReverseNext]_vars

\* the live keys k with start <= k <= end and k # exclusive_end
LiveInRange(s, start_key, end_key, exclusive_end_key) ==
  {k \in DOMAIN s : /\ IsLive(s, k)
                    /\ LexLeq(start_key, k)
                    /\ (end_key = <<>> \/ LexLeq(k, end_key))
                    /\ ~(exclusive_end_key # <<>> /\ k = exclusive_end_key)}

GreatestKey(keys) == CHOOSE k \in keys : \A other \in keys : LexLeq(other, k)

\* C20: a backward read over [start, end] with an optional exclusive end gives
\* the greatest live key of the range, or nothing when there is none, and
\* index_last and index_prev serve such reads: index_last returns the row of
\* the greatest live key, or END_OF_FILE on a table without live rows, and
\* index_prev does not refuse the call.
BackwardReadGivesGreatestLiveKey ==
  /\ (call.fn = "fetch_last_key_in_range" /\ ~last_scan.conflict)
       => LET live == LiveInRange(store, call.x[1], call.x[2], call.x[3])
          IN ret = IF live = {} THEN <<>> ELSE <<GreatestKey(live)>>
  /\ (call.fn = "index_last")
       => IF LiveInRange(store, <<>>, <<>>, <<>>) = {}
            THEN rc = HA_ERR_END_OF_FILE
            ELSE /\ rc = OK
                 /\ call.idx = PRIMARY
                      => last_fetched_primary_key_
                           = GreatestKey(LiveInRange(store, <<>>, <<>>, <<>>))
  /\ (call.fn = "index_prev") => rc # HA_ERR_WRONG_COMMAND

(***************************************************************************)
(* Stored blobs that end inside a field record.                            *)
(***************************************************************************)
MaxShortData == 2

\* rows whose values need one length byte
ShortRows == {r \in HostRows : \A i \in 1..Len(r.cols) : Len(r.cols[i].data) <= MaxShortData}

\* the bytes mapped after the blob: none, or a few bytes of one value
BeyondBytes == {0, 1, 120}
BeyondLen == 3
MemoryBeyond == {<<>>} \cup {Repeat(b, BeyondLen) : b \in BeyondBytes}

CorruptInit ==
  /\ call \in [fn : {"stored_row"}, idx : {<<>>}, x : ShortRows, y : MemoryBeyond]
  /\ ret = <<>>
  /\ ldbField = NewField(0)
  /\ write_buffer_ = <<>>
  /\ HandlerIdle

\* write_row up to the store: the row is encoded
StoreRow ==
  /\ call.fn = "stored_row" /\ ret = <<>>
  /\ LET w == set_write_buffer(ldbField, call.x)
     IN /\ ldbField' = w.field
        /\ write_buffer_' = w.buffer
  /\ ret' = <<"written">>
  /\ UNCHANGED <<call, handlerVars>>

\* set_fields_from_lineairdb up to the host fields, when the store hands back
\* the first `length` bytes of the blob and call.y follows them in memory:
\* ret records what the read made of it and the length it was given
ReadShortenedBlob ==
  /\ call.fn = "stored_row" /\ ret = <<"written">>
  /\ \E length \in 0..Len(write_buffer_) :
       LET d == make_mysql_table_row_in_memory(
                  ldbField, Take(write_buffer_, length) \o call.y, length)
       IN /\ ldbField' = d.field
          /\ ret' = <<"written", IF d.died THEN "SIGSEGV" ELSE "row", length>>
  /\ UNCHANGED <<call, write_buffer_, handlerVars>>

CorruptNext == StoreRow \/ ReadShortenedBlob

SpecCorrupt == CorruptInit /\ [][CorruptNext]_vars

\* the field-record framing: every record's header and payload end inside
\* the blob
RECURSIVE IsFramed(_, _)
IsFramed(data, offset) ==
  IF offset >= Len(data) THEN TRUE
  ELSE IF data[offset + 1] = noValue THEN IsFramed(data, offset + 1)
  ELSE /\ offset + 1 + data[offset + 1] <= Len(data)
       /\ LET n == convert_bytes_to_numeric(
                     SubSeq(data, offset + 2, offset + 1 + data[offset + 1]))
          IN /\ offset + 1 + data[offset + 1] + n <= Len(data)
             /\ IsFramed(data, offset + 1 + data[offset + 1] + n)

\* C17: a read of a stored blob that ends inside a field record (a header or
\* a payload reaching past the end of the blob) fails with CorruptRecord: it
\* yields no row and does not die reading past the blob.
CorruptBlobRejected ==
  (/\ call.fn = "stored_row"
   /\ Len(ret) = 3
   /\ ~IsFramed(Take(write_buffer_, ret[3]), 0))
    => ret[2] = "CorruptRecord"

(***************************************************************************)
(* One codec instance decoding one blob after another.                     *)
(***************************************************************************)
\* the blob set_write_buffer makes of a row
BlobOf(r) == set_write_buffer(NewField(0), r).buffer

\* the value of a deleted row, and the blobs of rows
StoredBlobs == {<<>>} \cup {BlobOf(r) : r \in ShortRows}

EarlierBlobs == {<<>>} \cup {BlobOf(r) : r \in EarlierRows}

DecodeInit ==
  /\ call \in [fn : {"blobs"}, idx : {<<>>}, x : EarlierBlobs, y : StoredBlobs]
  /\ ret = <<>>
  /\ ldbField \in {NewField(b) : b \in {0, noValue}}
  /\ write_buffer_ = <<>>
  /\ HandlerIdle

\* set_fields_from_lineairdb up to the host fields, on the blob of an earlier
\* read
DecodeEarlierBlob ==
  /\ call.fn = "blobs" /\ ret = <<>>
  /\ ldbField' = make_mysql_table_row(ldbField, call.x)
  /\ ret' = <<"earlier">>
  /\ UNCHANGED <<call, write_buffer_, handlerVars>>

\* the same on the blob of this read, by a codec new or used
DecodeBlob ==
  /\ call.fn = "blobs" /\ ret \in {<<>>, <<"earlier">>}
  /\ ldbField' = make_mysql_table_row(ldbField, call.y)
  /\ ret' = Append(ret, "read")
  /\ UNCHANGED <<call, write_buffer_, handlerVars>>

DecodeNext == DecodeEarlierBlob \/ DecodeBlob

SpecDecode == DecodeInit /\ [][DecodeNext]_vars

\* C25: the null flags and the columns a decode leaves in the codec are
\* those a new codec makes of the same blob, whatever the codec decoded
\* before; after a zero-length blob there are no null flags and no columns.
DecodeDependsOnlyOnBlob ==
  (call.fn = "blobs" /\ ret # <<>> /\ ret[Len(ret)] = "read")
    => /\ ldbField.nullFlag = make_mysql_table_row(NewField(0), call.y).nullFlag
       /\ ldbField.row = make_mysql_table_row(NewField(0), call.y).row
       /\ call.y = <<>> => (ldbField.nullFlag = <<>> /\ ldbField.row = <<>>)

(***************************************************************************)
(* An index cursor opened again on the same handler: index_end after the   *)
(* reads of one scan, index_init for the next, and calls for a next row    *)
(* before index_read_map has positioned the new cursor.  In this part ret  *)
(* lists the index_end calls made.                                         *)
(***************************************************************************)
MaxReopens == 1

IndexEnd ==
  /\ Alive
  /\ call.fn \in {"index_read_map", "index_next", "index_next_same"}
  /\ Len(ret) < MaxReopens
  /\ ret' = Append(ret, "index_end")
  /\ call' = Called("index_end", active_index, <<>>, <<>>)
  /\ active_index' = MAX_KEY
  /\ prefix_cursor_' = [prefix_cursor_ EXCEPT !.is_active = FALSE]
  /\ rc' = OK
  /\ UNCHANGED <<shareVars, countVars, ref, db_table_key, codecVars, store, index_store,
                 tx, secondary_index_results_, current_position_in_index_,
                 end_range_exclusive_key_, last_fetched_primary_key_, rndVars, buf,
                 last_scan>>

IndexInitAgain == call.fn = "index_end" /\ IndexInitCalled

\* the reads of the scan before the cursor is opened again
IndexReadMapFirstScan == ret = <<>> /\ IndexReadMapNoEnd

\* index_next right after index_init
IndexNextUnpositioned ==
  /\ Alive /\ call.fn = "index_init"
  /\ \E h \in index_next(Handler, store) : Becomes(h)
  /\ call' = [call EXCEPT !.fn = "index_next"]
  /\ IndexUnchanged

\* index_next_same right after index_init
IndexNextSameUnpositioned == call.fn = "index_init" /\ IndexNextSameCalled

ReopenNext ==
  \/ WriteRow
  \/ IndexInit
  \/ IndexReadMapFirstScan
  \/ IndexEnd
  \/ IndexInitAgain
  \/ IndexNextUnpositioned
  \/ IndexNextSameUnpositioned

SpecReopen == HandlerInit /\ [][ReopenNext]_vars

\* C34: index_next and index_next_same called after index_init, before an
\* index_read_map, return end-of-file: no key of an earlier scan is returned.
UnpositionedCursorIsAtEnd ==
  [][(call.fn = "index_init" /\ call'.fn \in {"index_next", "index_next_same"})
       => rc' = HA_ERR_END_OF_FILE]_vars

(***************************************************************************)
(* The row-returning operations of one handler: index reads and a table    *)
(* scan over rows written and deleted before the cursor was opened.        *)
(***************************************************************************)
FetchNext ==
  \/ WriteRow
  \/ DeleteRow
  \/ IndexInit
  \/ IndexReadMapNoEnd
  \/ IndexNext
  \/ IndexNextSame
  \/ RndInit
  \/ RndNext
  \/ RndEnd

SpecFetch == HandlerInit /\ [][FetchNext]_vars

FetchOperations == {"index_read_map", "index_next", "index_next_same", "rnd_next", "rnd_pos"}

\* C37: after a row-returning operation that returned success the buffer
\* holds a row of the table and last_fetched_primary_key_ is the primary key
\* of that row.
LastFetchedKeyIsBufferRow ==
  (call.fn \in FetchOperations /\ rc = OK)
    => \E a \in ColumnValues, b \in ColumnValues :
         /\ buf.cols = <<Digits(a), Digits(b)>>
         /\ last_fetched_primary_key_ = PrimaryKeyOf(a, b)

(***************************************************************************)
(* A transaction that another handler of the session has left aborted.     *)
(* The store aborts the transaction inside an operation of the other       *)
(* handler; where that operation does not report the conflict (the point   *)
(* read and fetch_and_set_current_result do not test is_aborted() after    *)
(* tx->read), the server goes on calling this handler.                     *)
(***************************************************************************)
OtherHandlerAborts ==
  /\ Alive
  /\ tx = "active"
  /\ tx' = "aborted"
  /\ UNCHANGED <<call, ret, codecVars, store, index_store, indexVars, rndVars,
                 last_fetched_primary_key_, rc, buf, last_scan, shareVars, countVars, ref,
                 db_table_key>>

AbortedNext ==
  \/ WriteRow
  \/ DeleteRow
  \/ IndexInit
  \/ IndexReadMapNoEnd
  \/ IndexNext
  \/ IndexNextSame
  \/ RndInit
  \/ RndNext
  \/ RndEnd
  \/ OtherHandlerAborts

SpecAborted == HandlerInit /\ [][AbortedNext]_vars

DataOperations ==
  {"write_row", "update_row", "delete_row", "index_read_map", "index_next",
   "index_next_same", "rnd_next", "rnd_pos"}

\* C33: a data operation called while the transaction is aborted returns
\* HA_ERR_LOCK_DEADLOCK, writes nothing to the store and scans nothing.
AbortedOperationsReturnConflict ==
  [][(is_aborted(tx) /\ call'.fn \in DataOperations)
       => /\ rc' = HA_ERR_LOCK_DEADLOCK
          /\ store' = store /\ index_store' = index_store
          /\ last_scan' = last_scan]_vars

(***************************************************************************)
(* position and rnd_pos.  The server allocates ref_length bytes for ref    *)
(* at open and does not initialise them; position() is called after a row  *)
(* was fetched and rnd_pos with the bytes position() left.                 *)
(***************************************************************************)
ref_length == ref_length_of(PrimaryIndex)

\* memcpy of a uint16_t on the little-endian host
Uint16Bytes(n) == <<n % 256, n \div 256>>

store_primary_key_in_ref(r, length, primary_key) ==
  IF length < 2 THEN r
  ELSE IF Len(primary_key) > 65535 THEN r
  ELSE IF Len(primary_key) > length - 2 THEN r
  ELSE Uint16Bytes(Len(primary_key)) \o primary_key
         \o ZeroBytes(length - 2 - Len(primary_key))

extract_primary_key_from_ref(pos, length) ==
  IF length < 2 THEN <<>>
  ELSE LET key_length == pos[1] + 256 * pos[2]
       IN IF key_length = 0 THEN <<>>
          ELSE IF 2 + key_length > length THEN <<>>
          ELSE SubSeq(pos, 3, 2 + key_length)

\* what the allocation of ref may hold: zeroes, or bytes that read as a key
AllocatedRefs ==
  {ZeroBytes(ref_length), [i \in 1..ref_length |-> IF i = 2 THEN 0 ELSE 1]}

PositionInit ==
  /\ call = NoCall
  /\ ret = <<>>
  /\ CodecIdle
  /\ store = EmptyStore
  /\ index_store = EmptyIndexStore
  /\ CursorIdle
  /\ ref \in AllocatedRefs

\* position(record) after a call that returned a row
Position ==
  /\ Alive
  /\ call.fn \in {"rnd_next", "rnd_pos", "index_read_map", "index_first", "index_next",
                  "index_next_same"}
  /\ rc = OK
  /\ call' = Called("position", call.idx, last_fetched_primary_key_, <<>>)
  /\ ref' = IF last_fetched_primary_key_ = <<>> THEN ref
            ELSE store_primary_key_in_ref(ref, ref_length, last_fetched_primary_key_)
  /\ UNCHANGED <<ret, codecVars, store, index_store, tx, indexVars, rndVars,
                 last_fetched_primary_key_, rc, buf, last_scan, shareVars, countVars,
                 db_table_key>>

\* rnd_pos(buf, pos) as the handler runs it
rnd_pos(pos) ==
  LET primary_key == extract_primary_key_from_ref(pos, ref_length)
      started == get_transaction(tx)
      result == StoreRead(store, primary_key)
  IN IF primary_key = <<>>
       THEN /\ rc' = HA_ERR_KEY_NOT_FOUND
            /\ UNCHANGED <<tx, db_table_key, ldbField, buf, last_fetched_primary_key_>>
     ELSE /\ tx' = started
          /\ IF is_aborted(started)
               THEN /\ rc' = HA_ERR_LOCK_DEADLOCK
                    /\ UNCHANGED <<db_table_key, ldbField, buf, last_fetched_primary_key_>>
             ELSE /\ db_table_key' = choose_table(OwnTable)
                  /\ IF result = <<>>
                       THEN /\ rc' = HA_ERR_KEY_NOT_FOUND
                            /\ UNCHANGED <<ldbField, buf, last_fetched_primary_key_>>
                     ELSE \E o \in SetFieldsOutcomes(ldbField, result) :
                            /\ ldbField' = o.field
                            /\ buf' = o.buf
                            /\ rc' = IF o.died THEN CRASHED ELSE OK
                            /\ last_fetched_primary_key_' =
                                 IF o.died THEN last_fetched_primary_key_ ELSE primary_key

\* rnd_pos with the bytes of ref, after position()
RndPos ==
  /\ Alive
  /\ call.fn = "position"
  /\ call' = Called("rnd_pos", call.idx, call.x, ref)
  /\ rnd_pos(ref)
  /\ UNCHANGED <<ret, write_buffer_, store, index_store, indexVars, rndVars, last_scan,
                 shareVars, countVars, ref>>

PositionNext ==
  \/ WriteRow
  \/ DeleteRow
  \/ RndInit
  \/ RndNext
  \/ RndEnd
  \/ Position
  \/ RndPos

SpecPosition == PositionInit /\ [][PositionNext]_vars

\* C31: rnd_pos on the bytes position() stored after a fetched row reads
\* that row: the key taken from ref is the fetched primary key and the call
\* succeeds on it.
PositionedRowIsRead ==
  (call.fn = "rnd_pos")
    => /\ extract_primary_key_from_ref(call.y, ref_length) = call.x
       /\ rc = OK
       /\ last_fetched_primary_key_ = call.x

(***************************************************************************)
(* The row counts.  A transaction gathers, per share, the change of the    *)
(* table's row count in rowcount_deltas_ and end_transaction adds it to    *)
(* the shard of the ending thread in the share.  In this part ret is the   *)
(* list of the transactions ended so far: the deltas each had gathered,    *)
(* whether it was aborted and what db->EndTransaction returned.            *)
(***************************************************************************)
MaxDelta == 1
MaxAccumulated == 2
MaxEnded == 2
MaxThreadId == 1

nullptr == "nullptr"

ThreadIds == 0..MaxThreadId

\* add_rowcount_delta: the entry of the share grows by delta, or a new entry
\* is pushed
add_rowcount_delta(deltas, share, delta) ==
  IF share = nullptr \/ delta = 0 THEN deltas
  ELSE IF \E i \in 1..Len(deltas) : deltas[i].share = share
    THEN [i \in 1..Len(deltas) |->
            IF deltas[i].share = share
              THEN [deltas[i] EXCEPT !.delta = @ + delta] ELSE deltas[i]]
  ELSE Append(deltas, [share |-> share, delta |-> delta])

peek_rowcount_delta(deltas, share) ==
  IF share = nullptr \/ ~\E i \in 1..Len(deltas) : deltas[i].share = share THEN 0
  ELSE deltas[CHOOSE i \in 1..Len(deltas) : deltas[i].share = share].delta

\* a test that flushes whatever the store said of the commit
should_flush_without_committed(was_aborted, committed, deltas) ==
  ~was_aborted /\ deltas # <<>>

\* the test of end_transaction before the flush
should_flush(was_aborted, committed, deltas) ==
  ~was_aborted /\ committed /\ deltas # <<>>

\* the loop of end_transaction: fetch_add on the shard of each entry's share
RECURSIVE FlushRowcountDeltas(_, _, _)
FlushRowcountDeltas(shards, deltas, shard) ==
  IF deltas = <<>> THEN shards
  ELSE LET entry == Head(deltas)
       IN FlushRowcountDeltas(
            IF entry.share = nullptr \/ entry.delta = 0 THEN shards
            ELSE [shards EXCEPT ![entry.share][shard] = @ + entry.delta],
            Tail(deltas), shard)

\* the shared counters after end_transaction of the thread tid
end_transaction(shards, deltas, was_aborted, committed, tid) ==
  IF should_flush(was_aborted, committed, deltas)
    THEN FlushRowcountDeltas(shards, deltas, tid % kRowCountShards)
    ELSE shards

RowCountUnchanged ==
  UNCHANGED <<codecVars, store, index_store, indexVars, rndVars, last_fetched_primary_key_,
              rc, buf, last_scan, shareVars, ref>>

\* get_transaction on an empty slot: a new LineairDBTransaction
RowCountBegin ==
  /\ tx = "none"
  /\ Len(ret) < MaxEnded
  /\ tx' = get_transaction(tx)
  /\ db_table_key' = NoTable
  /\ rowcount_deltas_' = <<>>
  /\ call' = Called("get_transaction", <<>>, <<>>, <<>>)
  /\ UNCHANGED <<ret, rowcount_shards>>
  /\ RowCountUnchanged

AddRowcountDelta ==
  /\ tx # "none"
  /\ \E share \in Shares \cup {nullptr}, delta \in (0 - MaxDelta)..MaxDelta :
       LET added == add_rowcount_delta(rowcount_deltas_, share, delta)
       IN /\ \A i \in 1..Len(added) :
               added[i].delta \in (0 - MaxAccumulated)..MaxAccumulated
          /\ rowcount_deltas_' = added
          /\ call' = Called("add_rowcount_delta", <<>>, share, delta)
  /\ UNCHANGED <<ret, tx, db_table_key, rowcount_shards>>
  /\ RowCountUnchanged

\* set_status_to_abort, or the store aborting the transaction in a call
SetStatusToAbort ==
  /\ tx = "active"
  /\ tx' = "aborted"
  /\ call' = Called("set_status_to_abort", <<>>, <<>>, <<>>)
  /\ UNCHANGED <<ret, db_table_key, countVars, ref>>
  /\ RowCountUnchanged

\* end_transaction, from terminate_tx: db->EndTransaction gives false for an
\* aborted transaction and may give false for any other; the wrapper is
\* deleted and the slot emptied
EndTransaction ==
  /\ tx # "none"
  /\ LET was_aborted == is_aborted(tx)
     IN \E committed \in (IF was_aborted THEN {FALSE} ELSE BOOLEAN), tid \in ThreadIds :
          /\ rowcount_shards' = end_transaction(rowcount_shards, rowcount_deltas_,
                                                was_aborted, committed, tid)
          /\ ret' = Append(ret, [deltas |-> rowcount_deltas_, was_aborted |-> was_aborted,
                                 committed |-> committed])
          /\ call' = Called("end_transaction", <<>>, committed, tid)
  /\ tx' = "none"
  /\ db_table_key' = NoTable
  /\ rowcount_deltas_' = <<>>
  /\ RowCountUnchanged

RowCountNext == RowCountBegin \/ AddRowcountDelta \/ SetStatusToAbort \/ EndTransaction

SpecRowCount == HandlerInit /\ [][RowCountNext]_vars

\* the sum of the shards of one share
RECURSIVE ShardTotal(_, _)
ShardTotal(shards, n) == IF n = 0 THEN 0 ELSE shards[n - 1] + ShardTotal(shards, n - 1)

\* what the first n ended transactions had gathered for the share, the
\* aborted ones and those whose commit failed left out
RECURSIVE CommittedDeltas(_, _, _)
CommittedDeltas(ended, share, n) ==
  IF n = 0 THEN 0
  ELSE (IF ~ended[n].was_aborted /\ ended[n].committed
          THEN peek_rowcount_delta(ended[n].deltas, share) ELSE 0)
       + CommittedDeltas(ended, share, n - 1)

\* C26: the shared counters of a share hold the deltas of the ended
\* transactions that were not aborted and whose commit succeeded, each once;
\* an aborted transaction, a failed commit and a transaction still open add
\* nothing.
RowCountsAreCommittedDeltas ==
  \A share \in Shares :
    ShardTotal(rowcount_shards[share], kRowCountShards)
      = CommittedDeltas(ret, share, Len(ret))

RowCountWitness ==
  /\ call.fn = "end_transaction"
  /\ Len(ret) = 2
  /\ \E i \in 1..2, j \in 1..2 :
       /\ ret[i].committed /\ ~ret[j].committed
       /\ peek_rowcount_delta(ret[i].deltas, "share1") = MaxAccumulated
       /\ peek_rowcount_delta(ret[j].deltas, "share1") # 0
  /\ ShardTotal(rowcount_shards["share1"], kRowCountShards) = MaxAccumulated

(***************************************************************************)
(* Writes to a table with a column outside the primary key: columns        *)
(* (a, b), both TINYINT NOT NULL, PRIMARY KEY (a) and the secondary        *)
(* KEY (b).  The server calls write_row for every INSERT, and update_row   *)
(* and delete_row with a row it has read from the table.                   *)
(***************************************************************************)
KeyedPrimaryIndex == <<IntPart(1, 1)>>
KeyedSecondaryIndex == <<IntPart(1, 2)>>

Rows == ColumnValues \X ColumnValues

KeyedPrimaryKeyOf(r) == extract_key_from_mysql(KeyedPrimaryIndex, RowFields(r[1], r[2]))
KeyedSecondaryKeyOf(r) == extract_key_from_mysql(KeyedSecondaryIndex, RowFields(r[1], r[2]))

\* the row whose blob the store holds under a live key
StoredRow(s, key) == CHOOSE r \in Rows : s[key].value = BlobOf(HostRow(r[1], r[2]))

\* the rows the server can read from the table
ReadableRows == {StoredRow(store, k) : k \in {k \in DOMAIN store : IsLive(store, k)}}

\* tx->WriteSecondaryIndex: the primary key is among the entries of the
\* secondary key
WriteSecondaryIndex(idx, secondary_key, primary_key) ==
  IF \E i \in 1..Len(idx[secondary_key]) : idx[secondary_key][i] = primary_key
    THEN idx
    ELSE [idx EXCEPT ![secondary_key] = Append(@, primary_key)]

\* tx->DeleteSecondaryIndex: the primary key is taken from the entries of the
\* secondary key
DeleteSecondaryIndex(idx, secondary_key, primary_key) ==
  [idx EXCEPT ![secondary_key] = SelectSeq(@, LAMBDA pk : pk # primary_key)]

\* tx->UpdateSecondaryIndex: the primary key moves from the old secondary
\* key to the new one
UpdateSecondaryIndex(idx, old_secondary_key, new_secondary_key, primary_key) ==
  WriteSecondaryIndex(DeleteSecondaryIndex(idx, old_secondary_key, primary_key),
                      new_secondary_key, primary_key)

\* update_row on the table: key = extract_key_from_mysql(old_data), then
\* tx->write(key, write_buffer_) with the blob of new_data
update_row_store(s, old_data, new_data, blob) ==
  [s EXCEPT ![KeyedPrimaryKeyOf(old_data)] = Live(blob)]

KeyedInit ==
  /\ call = NoCall
  /\ ret = <<>>
  /\ CodecIdle
  /\ store = [k \in {KeyedPrimaryKeyOf(r) : r \in Rows} |-> Absent]
  /\ index_store = [k \in {KeyedSecondaryKeyOf(r) : r \in Rows} |-> <<>>]
  /\ CursorIdle
  /\ ref = ZeroBytes(ref_length_of(KeyedPrimaryIndex))

KeyedUnchanged ==
  UNCHANGED <<ret, shareVars, countVars, ref, db_table_key, indexVars, rndVars, buf, last_scan>>

\* write_row: the row is written under its key whether or not the key is
\* there, and its secondary key is given the primary key
KeyedWriteRow ==
  \E r \in Rows :
    LET key == KeyedPrimaryKeyOf(r)
        w == set_write_buffer(ldbField, HostRow(r[1], r[2]))
    IN /\ Alive
       /\ call' = Called("write_row", PRIMARY, r, <<>>)
       /\ ldbField' = w.field
       /\ write_buffer_' = w.buffer
       /\ tx' = get_transaction(tx)
       /\ rc' = OK
       /\ store' = [store EXCEPT ![key] = Live(w.buffer)]
       /\ index_store' = WriteSecondaryIndex(index_store, KeyedSecondaryKeyOf(r), key)
       /\ UNCHANGED last_fetched_primary_key_
       /\ KeyedUnchanged

\* update_row(old_data, new_data) for a row the server has read
KeyedUpdateRow ==
  \E old_data \in ReadableRows, new_data \in Rows :
    LET key == KeyedPrimaryKeyOf(old_data)
        w == set_write_buffer(ldbField, HostRow(new_data[1], new_data[2]))
        old_secondary_key == KeyedSecondaryKeyOf(old_data)
        new_secondary_key == KeyedSecondaryKeyOf(new_data)
    IN /\ Alive
       /\ old_data # new_data
       /\ call' = Called("update_row", PRIMARY, old_data, new_data)
       /\ last_fetched_primary_key_' = key
       /\ ldbField' = w.field
       /\ write_buffer_' = w.buffer
       /\ tx' = get_transaction(tx)
       /\ rc' = OK
       /\ store' = update_row_store(store, old_data, new_data, w.buffer)
       /\ index_store' =
            IF old_secondary_key = new_secondary_key THEN index_store
            ELSE UpdateSecondaryIndex(index_store, old_secondary_key,
                                      new_secondary_key, key)
       /\ KeyedUnchanged

\* delete_row(buf) for a row the server has read
KeyedDeleteRow ==
  \E r \in ReadableRows :
    LET key == KeyedPrimaryKeyOf(r)
    IN /\ Alive
       /\ call' = Called("delete_row", PRIMARY, r, <<>>)
       /\ last_fetched_primary_key_' = key
       /\ tx' = get_transaction(tx)
       /\ rc' = OK
       /\ store' = [store EXCEPT ![key] = Tombstone]
       /\ index_store' = DeleteSecondaryIndex(index_store, KeyedSecondaryKeyOf(r), key)
       /\ UNCHANGED codecVars
       /\ KeyedUnchanged

KeyedNext == KeyedWriteRow \/ KeyedUpdateRow \/ KeyedDeleteRow

SpecWrites == KeyedInit /\ [][KeyedNext]_vars

\* the entries (secondary key, primary key) of the secondary index
IndexEntries ==
  {e \in (DOMAIN index_store) \X (DOMAIN store) :
     \E i \in 1..Len(index_store[e[1]]) : index_store[e[1]][i] = e[2]}

\* the entries the live rows call for
LiveRowEntries ==
  {<<KeyedSecondaryKeyOf(StoredRow(store, k)), k>> :
     k \in {k \in DOMAIN store : IsLive(store, k)}}

\* C29: after any sequence of write_row, update_row and delete_row the
\* secondary index holds the entry (secondary key built from the row, primary
\* key) for exactly the live rows.
SecondaryIndexMatchesLiveRows == IndexEntries = LiveRowEntries

\* C30: every live row is stored under the key that encodes its own
\* primary-key columns; after update_row changes the primary-key column the
\* new row is under the new key and no row is left under the old key.
RowStoredUnderOwnKey ==
  /\ \A k \in DOMAIN store :
       IsLive(store, k) => KeyedPrimaryKeyOf(StoredRow(store, k)) = k
  /\ (call.fn = "update_row" /\ KeyedPrimaryKeyOf(call.x) # KeyedPrimaryKeyOf(call.y))
       => /\ IsLive(store, KeyedPrimaryKeyOf(call.y))
          /\ StoredRow(store, KeyedPrimaryKeyOf(call.y)) = call.y
          /\ ~IsLive(store, KeyedPrimaryKeyOf(call.x))

(***************************************************************************)
(* The inputs of the key codec.                                            *)
(***************************************************************************)
\* top bytes and low bytes at the boundaries of the signed ranges
TopBytes == {0, 1, 127, 128, 251, 255}
LowBytes == {0, 5, 251, 255}
FillBytes == {0, 255}

\* little-endian images of w-byte integers: INT_MIN, -5, -1, 0, 1, 5, INT_MAX
\* and their neighbours
IntImages(w) ==
  IF w = 1 THEN {<<t>> : t \in TopBytes}
  ELSE {[i \in 1..w |-> IF i = 1 THEN x[1] ELSE IF i = w THEN x[3] ELSE x[2]] :
          x \in LowBytes \X FillBytes \X TopBytes}

IntWidths == {1, 2, 4, 8}

\* the signed value of an image is SignedTop * 256^(w-1) + the lower digits
SignedTop(data) ==
  IF data[Len(data)] >= 128 THEN data[Len(data)] - 256 ELSE data[Len(data)]

SignedLess(a, b) ==
  \/ SignedTop(a) < SignedTop(b)
  \/ /\ SignedTop(a) = SignedTop(b)
     /\ LexLess(Tail(BigEndian(a)), Tail(BigEndian(b)))

MaxStrLen == 3
StrBytes == {0, 1, 97, 255}

RECURSIVE StringsUpTo(_)
StringsUpTo(n) ==
  IF n = 0 THEN {<<>>}
  ELSE LET shorter == StringsUpTo(n - 1)
       IN shorter \cup {Append(s, b) : s \in {t \in shorter : Len(t) = n - 1}, b \in StrBytes}

Strings == StringsUpTo(MaxStrLen)

IntCalls ==
  UNION {[fn : {"encode_int_key"}, idx : {<<IntPart(w, 1)>>},
          x : IntImages(w), y : IntImages(w)] : w \in IntWidths}

StringCalls ==
  [fn : {"encode_string"}, idx : {<<StringPart(1)>>}, x : Strings, y : Strings]

\* two-part indexes and tuples k (x) and v (y) for the prefix range
PrefixStrings == {<<>>, <<97>>, <<97, 98>>, <<97, 0>>, <<97, 0, 0, 1>>, <<97, 0, 0, 1, 255>>}
PrefixInts == {<<128>>, <<255>>, <<0>>, <<1>>, <<127>>}

PartValues(kp) ==
  (IF kp.type = "STRING" THEN {NotNull(s) : s \in PrefixStrings}
                         ELSE {NotNull(d) : d \in PrefixInts})
  \cup (IF kp.nullable THEN {NullValue} ELSE {})

PrefixIndexes ==
  {<<IntPart(1, 1), IntPart(1, 2)>>, <<NullableIntPart(1, 1), IntPart(1, 2)>>,
   <<StringPart(1), IntPart(1, 2)>>, <<IntPart(1, 1), StringPart(2)>>}

Tuples(key_info) ==
  {<<a, b>> : a \in PartValues(key_info[1]), b \in PartValues(key_info[2])}

PrefixCalls ==
  UNION {[fn : {"prefix_range"}, idx : {ki}, x : Tuples(ki), y : Tuples(ki)] :
           ki \in PrefixIndexes}

(***************************************************************************)
(* The key codec applied to its inputs.                                    *)
(***************************************************************************)
KeyInit ==
  /\ call \in IntCalls \cup StringCalls \cup PrefixCalls
  /\ ret = <<>>
  /\ CodecIdle
  /\ HandlerIdle

EncodeIntPair ==
  /\ call.fn = "encode_int_key" /\ ret = <<>>
  /\ ret' = <<encode_int_key(call.x, call.idx[1].length),
              encode_int_key(call.y, call.idx[1].length)>>
  /\ UNCHANGED <<call, codecVars, handlerVars>>

EncodeStringPair ==
  /\ call.fn = "encode_string" /\ ret = <<>>
  /\ ret' = <<append_key_part_encoding(<<>>, FALSE, "STRING", call.x),
              append_key_part_encoding(<<>>, FALSE, "STRING", call.y)>>
  /\ UNCHANGED <<call, codecVars, handlerVars>>

\* the search prefix of k's first part, its prefix-range end, and the stored
\* key of v
EncodePrefixRange ==
  /\ call.fn = "prefix_range" /\ ret = <<>>
  /\ LET prefix == convert_key_to_ldbformat(call.idx, call.x, FirstParts(1))
     IN ret' = <<prefix, build_prefix_range_end(prefix),
                 extract_key_from_mysql(call.idx, call.y)>>
  /\ UNCHANGED <<call, codecVars, handlerVars>>

KeyNext == EncodeIntPair \/ EncodeStringPair \/ EncodePrefixRange

SpecKey == KeyInit /\ [][KeyNext]_vars

\* C1: for every width in {1,2,4,8} and signed values a < b of that width,
\* encode_int_key(a) is byte-wise smaller than encode_int_key(b).
IntKeyOrderPreserved ==
  (call.fn = "encode_int_key" /\ ret # <<>> /\ SignedLess(call.x, call.y))
    => LexLess(ret[1], ret[2])

\* INT_MIN against INT_MAX of the eight-byte width has been encoded
IntKeyOrderWitness ==
  /\ call.fn = "encode_int_key" /\ ret # <<>>
  /\ call.x = <<0, 0, 0, 0, 0, 0, 0, 128>>
  /\ call.y = <<255, 255, 255, 255, 255, 255, 255, 127>>
  /\ SignedLess(call.x, call.y)

\* C2: for byte strings a < b (a proper prefix sorts first) the STRING
\* key-part encoding of a is byte-wise smaller than that of b.
StringKeyOrderPreserved ==
  (call.fn = "encode_string" /\ ret # <<>> /\ LexLess(call.x, call.y))
    => LexLess(ret[1], ret[2])

\* C3: a stored key lies in [prefix, prefix + 0xFF) exactly when its leading
\* part equals the prefix's part.
PrefixRangeCorrect ==
  (call.fn = "prefix_range" /\ ret # <<>>)
    => ((call.y[1] = call.x[1])
          <=> (LexLeq(ret[1], ret[3]) /\ LexLess(ret[3], ret[2])))

\* C19: for w in {1,2,4,8} encode_int_key returns exactly w bytes, the
\* big-endian form of the value with the high bit of the width flipped: the
\* most negative value gives 00..00, zero 80 00..00, the most positive
\* FF..FF, the 4-byte -5 gives 7F FF FF FB and the 4-byte 5 gives 80 00 00 05.
IntKeyExactBytes ==
  (call.fn = "encode_int_key" /\ ret # <<>>) =>
    LET w == call.idx[1].length
        x == call.x
        key == ret[1]
    IN /\ w \in {1, 2, 4, 8}
       /\ Len(key) = w
       /\ \A j \in 1..w :
            key[j] = IF j > 1 THEN x[w + 1 - j]
                     ELSE IF x[w] >= 128 THEN x[w] - 128 ELSE x[w] + 128
       /\ (x = Repeat(0, w - 1) \o <<128>>) => (key = Repeat(0, w))
       /\ (x = Repeat(0, w)) => (key = <<128>> \o Repeat(0, w - 1))
       /\ (x = Repeat(255, w - 1) \o <<127>>) => (key = Repeat(255, w))
       /\ (x = <<251, 255, 255, 255>>) => (key = <<127, 255, 255, 251>>)
       /\ (x = <<5, 0, 0, 0>>) => (key = <<128, 0, 0, 5>>)

\* the four-byte -5 has been encoded as 7F FF FF FB
IntKeyExactBytesWitness ==
  /\ call.fn = "encode_int_key" /\ ret # <<>>
  /\ call.x = <<251, 255, 255, 255>>
  /\ ret[1] = <<127, 255, 255, 251>>

(***************************************************************************)
(* The two paths that build a key: the write path from the fields of a row *)
(* (extract_key_from_mysql, build_secondary_key_from_row) and the search   *)
(* path from the host's key image (convert_key_to_ldbformat).  The inputs  *)
(* are indexes over integer columns of the pack lengths 1 (TINYINT),       *)
(* 2 (SMALLINT), 3 (MEDIUMINT), 4 (INT) and 8 (BIGINT), over VARCHAR and   *)
(* over five-byte DATETIME columns, nullable or not.                       *)
(***************************************************************************)
PathIntWidths == {1, 2, 3, 4, 8}

\* little-endian images of INT_MIN, -5, 0, 5 and INT_MAX of w bytes
PathInts(w) ==
  {Repeat(0, w - 1) \o <<128>>, <<251>> \o Repeat(255, w - 1), Repeat(0, w),
   <<5>> \o Repeat(0, w - 1), Repeat(255, w - 1) \o <<127>>}

PathStrings == {<<>>, <<97>>, <<97, 0>>}

PathDatetimes(w) == {Repeat(0, w), [i \in 1..w |-> 150 + i]}

PathValues(kp) ==
  {NotNull(d) : d \in CASE kp.type = "INT" -> PathInts(kp.length)
                        [] kp.type = "DATETIME" -> PathDatetimes(kp.length)
                        [] OTHER -> PathStrings}
  \cup (IF kp.nullable THEN {NullValue} ELSE {})

PathParts(nr) ==
  {IntPart(w, nr) : w \in PathIntWidths}
  \cup {NullableIntPart(4, nr), StringPart(nr), Nullable(StringPart(nr)),
        DatetimePart(5, nr), Nullable(DatetimePart(5, nr))}

PathIndexes ==
  {<<kp>> : kp \in PathParts(1)}
  \cup {<<NullableIntPart(4, 1), StringPart(2)>>,
        <<StringPart(1), IntPart(8, 2)>>,
        <<Nullable(DatetimePart(5, 1)), IntPart(2, 2)>>}

\* the rows of an index: one value for the column of each part
PathTuples(key_info) ==
  {t \in [1..Len(key_info) -> UNION {PathValues(key_info[i]) : i \in 1..Len(key_info)}] :
     \A i \in 1..Len(key_info) : t[i] \in PathValues(key_info[i])}

PathCalls ==
  UNION {[fn : {"key_paths"}, idx : {ki}, x : PathTuples(ki), y : PathTuples(ki)] :
           ki \in PathIndexes}

PathInit ==
  /\ call \in PathCalls
  /\ ret = <<>>
  /\ CodecIdle
  /\ HandlerIdle

\* the key of row x on the write path and as a full search key, and the
\* same for row y
BuildKeyOnBothPaths ==
  /\ call.fn = "key_paths" /\ ret = <<>>
  /\ ret' = <<extract_key_from_mysql(call.idx, call.x),
              convert_key_to_ldbformat(call.idx, call.x, FirstParts(Len(call.idx))),
              extract_key_from_mysql(call.idx, call.y),
              convert_key_to_ldbformat(call.idx, call.y, FirstParts(Len(call.idx)))>>
  /\ UNCHANGED <<call, codecVars, handlerVars>>

PathNext == BuildKeyOnBothPaths

SpecPath == PathInit /\ [][PathNext]_vars

(***************************************************************************)
(* Two rows of one index encoded by the write path.  The parts are         *)
(* integers of the widths 1, 2, 4 and 8, VARCHAR and DATETIME, nullable or *)
(* not; the strings include bytes that read like the terminator, the       *)
(* length field and the head of a following part.                          *)
(***************************************************************************)
InjectiveStrings ==
  {<<>>, <<97>>, <<97, 0>>, <<97, 0, 0, 1>>, <<0, 0, 0, 0, 16, 0, 8, 128>>}

\* little-endian images of -5, 0, 5 and, for the eight-byte width, of the
\* value whose key bytes are 80 00 00 08 01 10 00 00
InjectiveInts(w) ==
  {<<251>> \o Repeat(255, w - 1), Repeat(0, w), <<5>> \o Repeat(0, w - 1)}
    \cup (IF w = 8 THEN {<<0, 0, 16, 1, 8, 0, 0, 0>>} ELSE {})

InjectiveValues(kp) ==
  {NotNull(d) : d \in CASE kp.type = "INT" -> InjectiveInts(kp.length)
                        [] kp.type = "DATETIME" -> PathDatetimes(kp.length)
                        [] OTHER -> InjectiveStrings}
  \cup (IF kp.nullable THEN {NullValue} ELSE {})

InjectiveIndexes ==
  {<<IntPart(w, 1)>> : w \in IntWidths}
  \cup {<<NullableIntPart(4, 1), StringPart(2)>>,
        <<StringPart(1), StringPart(2)>>,
        <<Nullable(StringPart(1)), Nullable(DatetimePart(5, 2))>>,
        <<StringPart(1), NullableIntPart(8, 2)>>}

InjectiveTuples(key_info) ==
  {t \in [1..Len(key_info) ->
            UNION {InjectiveValues(key_info[i]) : i \in 1..Len(key_info)}] :
     \A i \in 1..Len(key_info) : t[i] \in InjectiveValues(key_info[i])}

InjectiveCalls ==
  UNION {[fn : {"key_paths"}, idx : {ki}, x : InjectiveTuples(ki),
          y : InjectiveTuples(ki)] : ki \in InjectiveIndexes}

InjectiveInit ==
  /\ call \in InjectiveCalls
  /\ ret = <<>>
  /\ CodecIdle
  /\ HandlerIdle

SpecInjective == InjectiveInit /\ [][PathNext]_vars

\* C36: two tuples of part values of one index that differ in a part or in
\* a part's NULL flag are encoded by extract_key_from_mysql to different
\* byte strings.
KeyEncodingInjective ==
  (call.fn = "key_paths" /\ ret # <<>> /\ call.x # call.y) => (ret[1] # ret[3])

\* C11: for every index and every tuple of key column values, the key the
\* write path builds from the row is byte-identical to the key the search
\* path builds from the same values given as a full search key.
WriteKeyIsSearchKey ==
  (call.fn = "key_paths" /\ ret # <<>>) => (ret[1] = ret[2])

\* C16: the encoding of a NULL part is the NULL marker, the type tag and a
\* zero length with no payload, the same on the write and the search path,
\* and it is byte-wise greater than the encoding of every non-NULL value of
\* the part.
NullSortsAfterEveryValue ==
  (/\ call.fn = "key_paths" /\ ret # <<>>
   /\ Len(call.idx) = 1 /\ call.x[1].is_null /\ ~call.y[1].is_null)
    => /\ ret[1] = ret[2]
       /\ ret[1][1] = 1
       /\ ret[1][2] = key_part_type_tag(call.idx[1].type)
       /\ \A i \in 3..Len(ret[1]) : ret[1][i] = 0
       /\ LexLess(ret[3], ret[1])
       /\ LexLess(ret[4], ret[2])

\* a NULL and INT_MAX of a nullable four-byte integer part have been encoded
NullSortsAfterWitness ==
  /\ call.fn = "key_paths" /\ ret # <<>>
  /\ call.idx = <<NullableIntPart(4, 1)>>
  /\ call.x = <<NullValue>>
  /\ call.y = <<NotNull(<<255, 255, 255, 127>>)>>

====
